---- MODULE Spec2Model ----
(***************************************************************************)
(* Verification model of liberg: the worker pool (thread_pool.c, POSIX     *)
(* build), the pooled signal extraction of erg_get_signal, the chunked     *)
(* arena allocator (arena.c), the info-file parser (infofile.c) and the    *)
(* memory-mapped archive with its extraction kernels (erg.c).              *)
(***************************************************************************)
EXTENDS Integers, Sequences, FiniteSets, TLC

(***************************************************************************)
(* Bounds of the model                                                     *)
(***************************************************************************)
\* number of worker threads given to thread_pool_create
NumThreads == 2
\* largest erg->num_threads (work items of one submission)
MaxItems == 3
\* number of erg_get_signal calls made on one pool
MaxCycles == 2
\* erg->sample_count of the archive
SampleCount == 2

Workers == 0 .. (NumThreads - 1)
Samples == 0 .. (SampleCount - 1)
Byte == {0, 1}
Min(a, b) == IF a < b THEN a ELSE b

VARIABLES
    \* ---- struct ThreadPool ----
    work_func,        \* "NULL" or "extract_worker_pool"
    work_args,        \* the installed args array: the submission it belongs to (0: none)
    num_work_items,
    active_threads,
    shutdown,
    \* ---- worker threads ----
    wpc,              \* position of each worker in worker_thread
    thread_id,        \* ctx->thread_id as each worker read it
    warg,             \* arg_for_thread: NullArg or <<submission, item>>
    wpos,             \* next sample the running extraction writes
    wend,             \* end_sample of the running extraction
    \* ---- the client thread (erg_get_signal and the pool's owner) ----
    mpc,              \* "idle", "submitted", "waiting", "joining", "destroyed"
    subs,             \* one record per submission made: items, result buffer, freed flag
    returned,         \* per submission: the buffer as erg_get_signal returned it
    mapped,           \* the column of the mapped data file being extracted
    crashed,          \* the process was killed by a fault
    \* ---- history ----
    execs,            \* per submission and item: calls of func(args[i]) begun
    dones,            \* per submission and item: calls of func(args[i]) completed
    inflight,         \* a submission was made and thread_pool_wait has not returned for it
    \* ---- Arena ----
    astate,           \* "none" (not initialised, or freed), "ok", "exited", "crashed"
    arena,            \* struct Arena and its chain: [chunks, current, chunk_size]
    \* ---- history of the arena ----
    live,             \* regions handed out since init or the last reset
    allocSum,         \* sum of the sizes requested since init or the last reset
    lastOp,           \* the last arena call: [op, arg, ret] and the op before it
    nops,             \* arena calls made
    \* ---- infofile_parse_string: InfoFile and the locals of the parse ----
    entries,          \* info->entries[0 .. count): records [key, value]
    current_key,      \* NoKey (NULL) or the key of the pending multi-line entry
    value_buffer,     \* value_buffer[0 .. value_buffer_used)
    is_multiline,
    ipc,              \* "parsing" or "done" (infofile_parse_string has returned)
    \* ---- history of the parse ----
    file,             \* the lines consumed so far, each without its '\n'
    keyAt,            \* per entry: byte offset of the line that carried its key
    pendingAt,        \* byte offset of the key line of the pending entry
    \* ---- the archive: struct ERG and what it is opened on ----
    erg,              \* struct ERG, and whether the process is still running
    erg_info,         \* what the .erg.info file binds: byte order and the File.At.N entries
    erg_file,         \* the bytes of the .erg data file
    avx512_built,     \* the build defines __AVX512F__
    \* ---- history of the archive ----
    got,              \* the last erg_get_signal call: its argument and what it returned
    \* ---- erg_get_signal: the work records of one pooled extraction ----
    split,            \* [sample_count, num_threads] of the call
    work,             \* work[0 .. i): records [start_sample, end_sample] filled so far
    ran,              \* the work items whose extraction has run
    written           \* per sample: how many times result[sample] was stored

poolVars == <<work_func, work_args, num_work_items, active_threads, shutdown>>
workerVars == <<wpc, thread_id, warg, wpos, wend>>
clientVars == <<mpc, subs, returned, mapped, crashed>>
histVars == <<execs, dones, inflight>>
arenaVars == <<astate, arena>>
arenaHist == <<live, allocSum, lastOp, nops>>
infoVars == <<entries, current_key, value_buffer, is_multiline, ipc>>
infoHist == <<file, keyAt, pendingAt>>
ergVars == <<erg, erg_info, erg_file, avx512_built>>
ergHist == <<got>>
splitVars == <<split, work, ran, written>>
vars == <<poolVars, workerVars, clientVars, histVars, arenaVars, arenaHist, infoVars, infoHist,
          ergVars, ergHist, splitVars>>
\* what the pool and its client never touch, what the arena never touches, and
\* what the info-file parser never touches
notPool == <<arenaVars, arenaHist, infoVars, infoHist, ergVars, ergHist, splitVars>>
notArena == <<poolVars, workerVars, clientVars, histVars, infoVars, infoHist, ergVars, ergHist, splitVars>>
notInfo == <<poolVars, workerVars, clientVars, histVars, arenaVars, arenaHist, ergVars, ergHist, splitVars>>
notErg == <<poolVars, workerVars, clientVars, histVars, arenaVars, arenaHist, infoVars, infoHist, splitVars>>
notSplit == <<poolVars, workerVars, clientVars, histVars, arenaVars, arenaHist, infoVars, infoHist, ergVars, ergHist>>

(***************************************************************************)
(* erg_get_signal: partition of the samples across num_threads work items  *)
(***************************************************************************)
\* a start_sample that leaves the remainder out
work_start_sample_even(i, sample_count, num_threads) == i * (sample_count \div num_threads)

\* work[i].start_sample for erg->sample_count samples and num_threads work items
work_start_sample(i, sample_count, num_threads) ==
    LET samples_per_thread == sample_count \div num_threads
        remainder == sample_count % num_threads
    IN  i * samples_per_thread + (IF i < remainder THEN i ELSE remainder)

\* work[i].end_sample
work_end_sample(i, sample_count, num_threads) ==
    LET samples_per_thread == sample_count \div num_threads
        remainder == sample_count % num_threads
    IN  work_start_sample(i, sample_count, num_threads) + samples_per_thread
            + (IF i < remainder THEN 1 ELSE 0)

\* the two for the archive of the pool model
StartSample(i, T) == work_start_sample(i, SampleCount, T)
EndSample(i, T) == work_end_sample(i, SampleCount, T)

\* extract_signal_generic over [start, end): dest[s] <- src[s] for each sample
RECURSIVE ExtractRange(_, _, _, _)
ExtractRange(src, dest, start, end) ==
    IF start >= end THEN dest
    ELSE ExtractRange(src, [dest EXCEPT ![start] = src[start]], start + 1, end)

\* the single-threaded branch of erg_get_signal
ExtractSerial(src, dest) == ExtractRange(src, dest, 0, SampleCount)

\* values ctx->thread_id can take: worker_thread reads its argument as a
\* ThreadContext, but thread_pool_create passes the ThreadPool itself
GarbageIds == 0 .. MaxItems

\* arg_for_thread = NULL (submissions are numbered from 1)
NullArg == <<0, 0>>

Cycle == Len(subs)
NoCounts == [i \in 0 .. (MaxItems - 1) |-> 0]

(***************************************************************************)
(* Initial state: thread_pool_create(NumThreads) has returned, the archive *)
(* is parsed and mapped, no thread has run yet.                            *)
(***************************************************************************)
PoolStart ==
    /\ work_func = "NULL"
    /\ work_args = 0
    /\ num_work_items = 0
    /\ active_threads = 0
    /\ shutdown = FALSE
    /\ wpc = [w \in Workers |-> "entry"]
    /\ thread_id = [w \in Workers |-> 0]
    /\ warg = [w \in Workers |-> NullArg]
    /\ wpos = [w \in Workers |-> 0]
    /\ wend = [w \in Workers |-> 0]
    /\ mpc = "idle"
    /\ subs = << >>
    /\ returned = << >>
    /\ mapped \in [Samples -> Byte]
    /\ crashed = FALSE
    /\ execs = << >>
    /\ dones = << >>
    /\ inflight = FALSE

\* an Arena without chunks (first = current = NULL), a pointer <<chunk, offset>>
NoArena == [chunks |-> << >>, current |-> 0, chunk_size |-> 0]
NullPtr == <<0, 0>>

\* the Arena struct before arena_init
ArenaStart ==
    /\ astate = "none"
    /\ arena = NoArena
    /\ live = << >>
    /\ allocSum = 0
    /\ lastOp = [op |-> "none", arg |-> 0, ret |-> NullPtr, prev |-> "none"]
    /\ nops = 0

\* current_key = NULL
NoKey == <<"NULL">>

\* infofile_init has returned and infofile_parse_string is entered
InfoStart ==
    /\ entries = << >>
    /\ current_key = NoKey
    /\ value_buffer = << >>
    /\ is_multiline = FALSE
    /\ ipc = "parsing"
    /\ file = << >>
    /\ keyAt = << >>
    /\ pendingAt = 0

\* no archive: the ERG structure before erg_init, and no erg_get_signal call made
NoErg ==
    [st |-> "none", signals |-> <<>>, signal_count |-> 0, row_size |-> 0, data_size |-> 0,
     sample_count |-> 0, simd_level |-> 0, mapped_data |-> "NULL", mapped_size |-> 0,
     data_offset |-> 0, warned |-> FALSE, diag |-> "none"]

NoCall == [name |-> <<>>, ret |-> "none", data |-> <<>>, raw |-> <<>>, last |-> 0 - 1]

NoInfoFile == [byte_order |-> <<"NULL">>, sigs |-> <<>>]

ErgIdle == erg = NoErg /\ got = NoCall

ErgStart ==
    /\ ErgIdle
    /\ erg_info = NoInfoFile
    /\ erg_file = <<>>
    /\ avx512_built = FALSE

\* no pooled extraction has been set up
NoSplit == [sample_count |-> 0, num_threads |-> 0]
SplitIdle == work = << >> /\ ran = {} /\ written = << >>
SplitStart == split = NoSplit /\ SplitIdle

PoolInit == PoolStart /\ ArenaStart /\ InfoStart /\ ErgStart /\ SplitStart

(***************************************************************************)
(* worker_thread (POSIX)                                                   *)
(***************************************************************************)
\* entry: ctx = (ThreadContext*)arg with arg pointing at the ThreadPool.
\* Reading ctx->pool and ctx->thread_id through the wrong type is undefined:
\* the thread faults on the bogus pool pointer, or goes on with whatever
\* thread_id the bytes happen to hold.
worker_thread_entry(w) ==
    /\ ~crashed
    /\ UNCHANGED notPool
    /\ wpc[w] = "entry"
    /\ \/ /\ crashed' = TRUE
          /\ UNCHANGED <<wpc, thread_id>>
       \/ /\ \E id \in GarbageIds : thread_id' = [thread_id EXCEPT ![w] = id]
          /\ wpc' = [wpc EXCEPT ![w] = "top"]
          /\ UNCHANGED crashed
    /\ UNCHANGED <<poolVars, warg, wpos, wend, mpc, subs, returned, mapped, histVars>>

\* top of the loop, under the lock: leave pthread_cond_wait once work_func is
\* set or shutdown is raised; exit on shutdown, else grab func and the argument
worker_thread_grab(w) ==
    /\ ~crashed
    /\ UNCHANGED notPool
    /\ wpc[w] = "top"
    /\ work_func # "NULL" \/ shutdown
    /\ IF shutdown
       THEN /\ wpc' = [wpc EXCEPT ![w] = "exited"]
            /\ UNCHANGED warg
       ELSE /\ wpc' = [wpc EXCEPT ![w] = "exec"]
            /\ warg' = [warg EXCEPT ![w] =
                   IF thread_id[w] < num_work_items
                   THEN <<work_args, thread_id[w]>> ELSE NullArg]
    /\ UNCHANGED <<poolVars, thread_id, wpos, wend, clientVars, histVars>>

\* outside the lock: if (func && arg_for_thread) func(arg_for_thread) begins.
\* extract_worker_pool reads the ExtractWork record; if erg_get_signal has
\* already freed it the read is a use after free: fault, or stale contents.
worker_thread_call(w) ==
    /\ ~crashed
    /\ UNCHANGED notPool
    /\ wpc[w] = "exec"
    /\ IF warg[w] = NullArg
       THEN /\ wpc' = [wpc EXCEPT ![w] = "signal"]
            /\ UNCHANGED <<wpos, wend, execs, crashed>>
       ELSE LET c == warg[w][1]
                i == warg[w][2]
            IN  \/ /\ wpc' = [wpc EXCEPT ![w] = "running"]
                   /\ wpos' = [wpos EXCEPT ![w] = StartSample(i, subs[c].items)]
                   /\ wend' = [wend EXCEPT ![w] = EndSample(i, subs[c].items)]
                   /\ execs' = [execs EXCEPT ![c][i] = @ + 1]
                   /\ UNCHANGED crashed
                \/ /\ subs[c].freed
                   /\ crashed' = TRUE
                   /\ UNCHANGED <<wpc, wpos, wend, execs>>
    /\ UNCHANGED <<poolVars, thread_id, warg, mpc, subs, returned, mapped, dones, inflight>>

\* one iteration of the extraction loop: copy one sample into the result buffer
extract_worker_pool_step(w) ==
    /\ ~crashed
    /\ UNCHANGED notPool
    /\ wpc[w] = "running"
    /\ wpos[w] < wend[w]
    /\ LET c == warg[w][1]
       IN  subs' = [subs EXCEPT ![c].result[wpos[w]] = mapped[wpos[w]]]
    /\ wpos' = [wpos EXCEPT ![w] = @ + 1]
    /\ UNCHANGED <<poolVars, wpc, thread_id, warg, wend, mpc, returned, mapped, crashed, histVars>>

\* func returns
extract_worker_pool_return(w) ==
    /\ ~crashed
    /\ UNCHANGED notPool
    /\ wpc[w] = "running"
    /\ wpos[w] >= wend[w]
    /\ wpc' = [wpc EXCEPT ![w] = "signal"]
    /\ dones' = [dones EXCEPT ![warg[w][1]][warg[w][2]] = @ + 1]
    /\ UNCHANGED <<poolVars, thread_id, warg, wpos, wend, clientVars, execs, inflight>>

\* under the lock: active_threads--; the one that reaches 0 clears work_func
\* and signals complete_cond; back to the top of the loop
worker_thread_signal(w) ==
    /\ ~crashed
    /\ UNCHANGED notPool
    /\ wpc[w] = "signal"
    /\ active_threads' = active_threads - 1
    /\ work_func' = IF active_threads - 1 = 0 THEN "NULL" ELSE work_func
    /\ wpc' = [wpc EXCEPT ![w] = "top"]
    /\ UNCHANGED <<work_args, num_work_items, shutdown, thread_id, warg, wpos, wend,
                   clientVars, histVars>>

(***************************************************************************)
(* The client thread                                                       *)
(***************************************************************************)
\* erg_get_signal with erg->num_threads = T > 1 and a pool, up to and
\* including thread_pool_submit: allocate the result (contents indeterminate)
\* and the work records, partition, install the work, broadcast work_cond
erg_get_signal_submit(T) ==
    /\ ~crashed
    /\ UNCHANGED notPool
    /\ mpc = "idle"
    /\ Cycle < MaxCycles
    /\ T > 1
    /\ \E garbage \in [Samples -> Byte] :
          subs' = Append(subs, [items |-> T, result |-> garbage, freed |-> FALSE])
    /\ work_func' = "extract_worker_pool"
    /\ work_args' = Cycle + 1
    /\ num_work_items' = T
    /\ active_threads' = Min(T, NumThreads)
    /\ execs' = Append(execs, NoCounts)
    /\ dones' = Append(dones, NoCounts)
    /\ inflight' = TRUE
    /\ mpc' = "submitted"
    /\ UNCHANGED <<shutdown, workerVars, returned, mapped, crashed>>

\* erg_get_signal calls thread_pool_wait
thread_pool_wait_call ==
    /\ ~crashed
    /\ UNCHANGED notPool
    /\ mpc = "submitted"
    /\ mpc' = "waiting"
    /\ UNCHANGED <<poolVars, workerVars, subs, returned, mapped, crashed, histVars>>

\* thread_pool_wait returns once active_threads > 0 is false and clears
\* work_func; erg_get_signal frees work and work_args and returns the result
thread_pool_wait_return ==
    /\ ~crashed
    /\ UNCHANGED notPool
    /\ mpc = "waiting"
    /\ ~(active_threads > 0)
    /\ work_func' = "NULL"
    /\ subs' = [subs EXCEPT ![Cycle].freed = TRUE]
    /\ returned' = Append(returned, subs[Cycle].result)
    /\ inflight' = FALSE
    /\ mpc' = "idle"
    /\ UNCHANGED <<work_args, num_work_items, active_threads, shutdown, workerVars,
                   mapped, crashed, execs, dones>>

\* thread_pool_destroy up to the joins: raise shutdown, broadcast work_cond
thread_pool_destroy ==
    /\ ~crashed
    /\ UNCHANGED notPool
    /\ mpc \in {"idle", "submitted"}
    /\ shutdown' = TRUE
    /\ mpc' = "joining"
    /\ UNCHANGED <<work_func, work_args, num_work_items, active_threads, workerVars,
                   subs, returned, mapped, crashed, histVars>>

\* thread_pool_destroy: every pthread_join has returned; the pool is freed
thread_pool_destroy_join ==
    /\ ~crashed
    /\ UNCHANGED notPool
    /\ mpc = "joining"
    /\ \A w \in Workers : wpc[w] = "exited"
    /\ mpc' = "destroyed"
    /\ UNCHANGED <<poolVars, workerVars, subs, returned, mapped, crashed, histVars>>

PoolNext ==
    \/ \E w \in Workers : worker_thread_entry(w)
    \/ \E w \in Workers : worker_thread_grab(w)
    \/ \E w \in Workers : worker_thread_call(w)
    \/ \E w \in Workers : extract_worker_pool_step(w)
    \/ \E w \in Workers : extract_worker_pool_return(w)
    \/ \E w \in Workers : worker_thread_signal(w)
    \/ \E T \in 1 .. MaxItems : erg_get_signal_submit(T)
    \/ thread_pool_wait_call
    \/ thread_pool_wait_return
    \/ thread_pool_destroy
    \/ thread_pool_destroy_join

PoolSpec == PoolInit /\ [][PoolNext]_vars

\* scheduling of the POSIX threads: a thread that can take a step eventually
\* takes it, and a blocked thread_pool_wait returns once its condition holds
PoolFairness ==
    /\ \A w \in Workers :
          /\ WF_vars(worker_thread_entry(w))
          /\ WF_vars(worker_thread_grab(w))
          /\ WF_vars(worker_thread_call(w))
          /\ WF_vars(extract_worker_pool_step(w))
          /\ WF_vars(extract_worker_pool_return(w))
          /\ WF_vars(worker_thread_signal(w))
    /\ WF_vars(thread_pool_wait_return)

PoolFairSpec == PoolSpec /\ PoolFairness

(***************************************************************************)
(* Claims about the worker pool                                            *)
(***************************************************************************)
\* the work items of submission c that have run to completion at least once
Completed(c) == {i \in 0 .. (subs[c].items - 1) : dones[c][i] >= 1}
\* workers holding item i of submission c that have not finished running it
Busy(c, i) == {w \in Workers : wpc[w] \in {"exec", "running"} /\ warg[w] = <<c, i>>}

\* C1: for a submission of k work items, 1 <= k <= n, thread_pool_wait returns
\* only after func(args[i]) has run to completion for every i < k: at the
\* return no item of the submission is still running or not yet started.
C1_WaitIsBarrier ==
    [][(mpc = "waiting" /\ mpc' = "idle" /\ subs[Cycle].items <= NumThreads)
          => \A i \in 0 .. (subs[Cycle].items - 1) :
                 i \in Completed(Cycle) /\ Busy(Cycle, i) = {}]_vars

\* C2: within one submission of k <= n work items each func(args[i]), i < k,
\* is executed exactly once: never a second time, and once the submission's
\* wait has returned none has been skipped.
C2_ExactlyOnce ==
    \A c \in 1 .. Cycle :
        subs[c].items <= NumThreads =>
            \A i \in 0 .. (subs[c].items - 1) :
                /\ execs[c][i] <= 1
                /\ c <= Len(returned) => execs[c][i] = 1

\* C3: the buffer erg_get_signal returns from an extraction partitioned across
\* T pool workers (here T within the pool's size) is byte-identical to the
\* single-threaded extraction of the same signal, whatever the interleaving.
C3_ParallelDeterminism ==
    \A c \in 1 .. Len(returned) :
        subs[c].items <= NumThreads => returned[c] = ExtractSerial(mapped, returned[c])

\* C4: on a reused pool every call of thread_pool_wait eventually returns.
C4_WaitReturns == (mpc = "waiting") ~> (mpc = "idle")

\* C5: when thread_pool_destroy is called with a submission in flight, every
\* work item of the submission has run to completion by the time the workers
\* have exited and destroy returns.
C5_DestroyDrains ==
    (mpc = "destroyed" /\ inflight) =>
        \A i \in 0 .. (Min(subs[Cycle].items, NumThreads) - 1) : i \in Completed(Cycle)

(***************************************************************************)
(* Arena (arena.c).  size_t is scaled down: sizes are the integers         *)
(* 0 .. SizeMod - 1 and size_t arithmetic is arithmetic modulo SizeMod.    *)
(* The heap hands out at most HeapMax bytes, so no satisfiable request     *)
(* comes near SizeMod, as on the real machine.                             *)
(***************************************************************************)
\* SIZE_MAX + 1, scaled
SizeMod == 32
\* sizeof(ArenaChunk): next, capacity, used (scaled)
HeaderSize == 2
\* bytes malloc can hand out in total
HeapMax == SizeMod \div 2
\* the 16 MiB cap on arena->chunk_size (scaled)
ChunkSizeCap == SizeMod \div 8
\* arena calls made in one run
MaxArenaOps == 4
\* longest string given to arena_strdup / arena_strndup
MaxStrLen == 1

AddSz(a, b) == (a + b) % SizeMod
SubSz(a, b) == (a - b + SizeMod) % SizeMod
MulSz(a, b) == (a * b) % SizeMod

InitSizes == {0, 2, 4, SizeMod - 1}
AllocSizes == {0, 1, 3, SizeMod \div 2, SizeMod - 1}
ReserveTotals == {0, 5, 9, SizeMod - 1}
Chars == {1, 2}
Strings == UNION {[1 .. n -> Chars] : n \in 0 .. MaxStrLen}

RECURSIVE SumOver(_, _, _)
\* the chain walk: sum of field f over the chunks from index i on
SumOver(chs, f, i) ==
    IF i > Len(chs) THEN 0 ELSE chs[i][f] + SumOver(chs, f, i + 1)

\* bytes of the heap the chain occupies: a header and the data[] of each chunk
HeapUsed(chs) ==
    IF chs = << >> THEN 0
    ELSE Len(chs) * HeaderSize + SumOver([i \in 1 .. Len(chs) |-> [n |-> Len(chs[i].data)]], "n", 1)

\* arena_get_used, arena_get_capacity: size_t sums over the chain
arena_get_used(a) == SumOver(a.chunks, "used", 1) % SizeMod
arena_get_capacity(a) == SumOver(a.chunks, "capacity", 1) % SizeMod

Outcome(st, a, ret) == [st |-> st, arena |-> a, ret |-> ret]
NoChunk == [capacity |-> 0, used |-> 0, data |-> << >>]

\* chunk_create(capacity): malloc(sizeof(ArenaChunk) + capacity), the sum taken
\* in size_t.  NULL from malloc is fatal (exit(1)).  When the sum wraps, the
\* block is smaller than the header: the chunk records `capacity` but owns no
\* data bytes, and writing its header may fault.
chunk_create(chs, capacity) ==
    LET req == AddSz(HeaderSize, capacity)
        block == IF req < HeaderSize THEN HeaderSize ELSE req
        fresh == [capacity |-> capacity, used |-> 0,
                  data |-> [o \in 1 .. (block - HeaderSize) |-> 0]]
    IN  IF HeapUsed(chs) + block > HeapMax
        THEN {[st |-> "exited", chunk |-> NoChunk]}
        ELSE {[st |-> "ok", chunk |-> fresh]}
             \cup (IF req < HeaderSize THEN {[st |-> "crashed", chunk |-> NoChunk]} ELSE {})

\* arena_init(arena, initial_size)
arena_init(initial_size) ==
    {IF c.st = "ok"
     THEN Outcome("ok", [chunks |-> <<c.chunk>>, current |-> 1,
                         chunk_size |-> initial_size], NullPtr)
     ELSE Outcome(c.st, NoArena, NullPtr) : c \in chunk_create(<< >>, initial_size)}

\* the while loop of arena_reserve
RECURSIVE ReserveLoop(_, _, _)
ReserveLoop(a, total_available, total_needed) ==
    IF ~(total_available < total_needed)
    THEN {Outcome("ok", a, NullPtr)}
    ELSE LET size == a.chunk_size
             a1 == IF a.chunk_size < ChunkSizeCap
                   THEN [a EXCEPT !.chunk_size = MulSz(@, 2)] ELSE a
         IN  UNION {IF c.st = "ok"
                    THEN ReserveLoop([a1 EXCEPT !.chunks = Append(@, c.chunk)],
                                     AddSz(total_available, size), total_needed)
                    ELSE {Outcome(c.st, a1, NullPtr)} : c \in chunk_create(a.chunks, size)}

\* arena_reserve with `if` for `while`: at most one chunk is appended
arena_reserve_once(a, total_needed) ==
    IF ~(SumOver(a.chunks, "capacity", 1) % SizeMod < total_needed)
    THEN {Outcome("ok", a, NullPtr)}
    ELSE LET a1 == IF a.chunk_size < ChunkSizeCap
                   THEN [a EXCEPT !.chunk_size = MulSz(@, 2)] ELSE a
         IN  {IF c.st = "ok"
              THEN Outcome("ok", [a1 EXCEPT !.chunks = Append(@, c.chunk)], NullPtr)
              ELSE Outcome(c.st, a1, NullPtr) : c \in chunk_create(a.chunks, a.chunk_size)}

\* arena_reserve(arena, total_needed)
arena_reserve(a, total_needed) ==
    ReserveLoop(a, SumOver(a.chunks, "capacity", 1) % SizeMod, total_needed)

\* an arena_alloc that searches the whole chain, from the first chunk on, when the
\* current chunk has no room
arena_alloc_scan_all(a, size) ==
    LET chs == a.chunks
        cur == chs[a.current]
        any == {j \in 1 .. Len(chs) : SubSz(chs[j].capacity, chs[j].used) >= size}
    IN  IF AddSz(cur.used, size) <= cur.capacity
        THEN {Outcome("ok", [a EXCEPT !.chunks[a.current].used = AddSz(@, size)],
                      <<a.current, cur.used>>)}
        ELSE IF any # {}
        THEN LET j == CHOOSE k \in any : \A m \in any : k <= m
             IN  {Outcome("ok", [a EXCEPT !.chunks[j].used = AddSz(@, size), !.current = j],
                          <<j, chs[j].used>>)}
        ELSE LET new_chunk_size == IF size > a.chunk_size THEN MulSz(size, 2)
                                   ELSE a.chunk_size
             IN  {IF c.st = "ok"
                  THEN Outcome("ok",
                               [chunks |-> Append(chs, [c.chunk EXCEPT !.used = size]),
                                current |-> Len(chs) + 1,
                                chunk_size |-> IF a.chunk_size < ChunkSizeCap
                                               THEN MulSz(a.chunk_size, 2)
                                               ELSE a.chunk_size],
                               <<Len(chs) + 1, 0>>)
                  ELSE Outcome(c.st, a, NullPtr) : c \in chunk_create(chs, new_chunk_size)}

\* an arena_alloc whose fresh chunk has the larger of chunk_size and 2 * size
arena_alloc_headroom(a, size) ==
    LET chs == a.chunks
        cur == chs[a.current]
        later == {j \in (a.current + 1) .. Len(chs) :
                     SubSz(chs[j].capacity, chs[j].used) >= size}
    IN  IF AddSz(cur.used, size) <= cur.capacity
        THEN {Outcome("ok", [a EXCEPT !.chunks[a.current].used = AddSz(@, size)],
                      <<a.current, cur.used>>)}
        ELSE IF later # {}
        THEN LET j == CHOOSE k \in later : \A m \in later : k <= m
             IN  {Outcome("ok", [a EXCEPT !.chunks[j].used = AddSz(@, size), !.current = j],
                          <<j, chs[j].used>>)}
        ELSE LET new_chunk_size == IF MulSz(size, 2) > a.chunk_size THEN MulSz(size, 2)
                                   ELSE a.chunk_size
             IN  {IF c.st = "ok"
                  THEN Outcome("ok",
                               [chunks |-> Append(chs, [c.chunk EXCEPT !.used = size]),
                                current |-> Len(chs) + 1,
                                chunk_size |-> IF a.chunk_size < ChunkSizeCap
                                               THEN MulSz(a.chunk_size, 2)
                                               ELSE a.chunk_size],
                               <<Len(chs) + 1, 0>>)
                  ELSE Outcome(c.st, a, NullPtr) : c \in chunk_create(chs, new_chunk_size)}

\* arena_alloc(arena, size): the current chunk, else the first later chunk with
\* room, else a fresh chunk appended to the chain
arena_alloc(a, size) ==
    LET chs == a.chunks
        cur == chs[a.current]
        later == {j \in (a.current + 1) .. Len(chs) :
                     SubSz(chs[j].capacity, chs[j].used) >= size}
    IN  IF AddSz(cur.used, size) <= cur.capacity
        THEN {Outcome("ok", [a EXCEPT !.chunks[a.current].used = AddSz(@, size)],
                      <<a.current, cur.used>>)}
        ELSE IF later # {}
        THEN LET j == CHOOSE k \in later : \A m \in later : k <= m
             IN  {Outcome("ok", [a EXCEPT !.chunks[j].used = AddSz(@, size), !.current = j],
                          <<j, chs[j].used>>)}
        ELSE LET new_chunk_size == IF size > a.chunk_size THEN MulSz(size, 2)
                                   ELSE a.chunk_size
             IN  {IF c.st = "ok"
                  THEN Outcome("ok",
                               [chunks |-> Append(chs, [c.chunk EXCEPT !.used = size]),
                                current |-> Len(chs) + 1,
                                chunk_size |-> IF a.chunk_size < ChunkSizeCap
                                               THEN MulSz(a.chunk_size, 2)
                                               ELSE a.chunk_size],
                               <<Len(chs) + 1, 0>>)
                  ELSE Outcome(c.st, a, NullPtr) : c \in chunk_create(chs, new_chunk_size)}

\* memcpy_simd_unaligned(ptr, bytes, Len(bytes)) into the arena: the bytes that
\* fall inside the chunk's data[] are stored; a copy that runs past it is a heap
\* overflow, which faults or lands in foreign memory
CopyInto(o, bytes) ==
    IF o.st # "ok" THEN {o}
    ELSE LET j == o.ret[1]
             off == o.ret[2]
             old == o.arena.chunks[j].data
             new == [k \in 1 .. Len(old) |->
                        IF k > off /\ k <= off + Len(bytes) THEN bytes[k - off] ELSE old[k]]
             stored == [o EXCEPT !.arena.chunks[j].data = new]
         IN  IF off + Len(bytes) <= Len(old) THEN {stored}
             ELSE {stored, Outcome("crashed", o.arena, NullPtr)}

\* arena_strdup(arena, str): len = strlen(str) + 1 bytes, the NUL included
arena_strdup(a, str) ==
    UNION {CopyInto(o, Append(str, 0)) : o \in arena_alloc(a, AddSz(Len(str), 1))}

\* arena_strndup(arena, str, n): n bytes of str and a NUL
arena_strndup(a, str, n) ==
    UNION {CopyInto(o, Append(SubSeq(str, 1, n), 0)) : o \in arena_alloc(a, AddSz(n, 1))}

\* arena_reset that clears only the current chunk and leaves current in place
arena_reset_current_only(a) ==
    [a EXCEPT !.chunks[a.current].used = 0]

\* arena_reset(arena)
arena_reset(a) ==
    [a EXCEPT !.chunks = [i \in 1 .. Len(a.chunks) |-> [a.chunks[i] EXCEPT !.used = 0]],
              !.current = 1]

\* arena_free(arena)
arena_free(a) == NoArena

(***************************************************************************)
(* Calls of the arena API by its owner                                     *)
(***************************************************************************)
Region(o, size, bytes) ==
    [chunk |-> o.ret[1], off |-> o.ret[2], size |-> size, bytes |-> bytes]

\* the effect of a call that returned outcome o
Returns(o, op, arg) ==
    /\ astate' = o.st
    /\ arena' = o.arena
    /\ lastOp' = [op |-> op, arg |-> arg, ret |-> o.ret, prev |-> lastOp.op]
    /\ nops' = nops + 1
    /\ UNCHANGED notArena

call_arena_init(s) ==
    /\ astate = "none"
    /\ nops < MaxArenaOps
    /\ \E o \in arena_init(s) : Returns(o, "init", s)
    /\ live' = << >>
    /\ allocSum' = 0

call_arena_reserve(total) ==
    /\ astate = "ok"
    /\ nops < MaxArenaOps
    /\ \E o \in arena_reserve(arena, total) : Returns(o, "reserve", total)
    /\ UNCHANGED <<live, allocSum>>

call_arena_alloc(size) ==
    /\ astate = "ok"
    /\ nops < MaxArenaOps
    /\ \E o \in arena_alloc(arena, size) :
          /\ Returns(o, "alloc", size)
          /\ live' = IF o.st = "ok" THEN Append(live, Region(o, size, << >>)) ELSE live
    /\ allocSum' = allocSum + size

call_arena_strdup(str) ==
    /\ astate = "ok"
    /\ nops < MaxArenaOps
    /\ \E o \in arena_strdup(arena, str) :
          /\ Returns(o, "strdup", Len(str))
          /\ live' = IF o.st = "ok"
                     THEN Append(live, Region(o, Len(str) + 1, Append(str, 0))) ELSE live
    /\ allocSum' = allocSum + Len(str) + 1

call_arena_strndup(str, n) ==
    /\ astate = "ok"
    /\ nops < MaxArenaOps
    /\ n <= Len(str)
    /\ \E o \in arena_strndup(arena, str, n) :
          /\ Returns(o, "strndup", n)
          /\ live' = IF o.st = "ok"
                     THEN Append(live, Region(o, n + 1, Append(SubSeq(str, 1, n), 0)))
                     ELSE live
    /\ allocSum' = allocSum + n + 1

call_arena_reset ==
    /\ astate = "ok"
    /\ nops < MaxArenaOps
    /\ Returns(Outcome("ok", arena_reset(arena), NullPtr), "reset", 0)
    /\ live' = << >>
    /\ allocSum' = 0

call_arena_free ==
    /\ astate = "ok"
    /\ nops < MaxArenaOps
    /\ Returns(Outcome("none", arena_free(arena), NullPtr), "free", 0)
    /\ live' = << >>
    /\ allocSum' = 0

ArenaNext ==
    \/ \E s \in InitSizes : call_arena_init(s)
    \/ \E total \in ReserveTotals : call_arena_reserve(total)
    \/ \E size \in AllocSizes : call_arena_alloc(size)
    \/ \E str \in Strings : call_arena_strdup(str)
    \/ \E str \in Strings : \E n \in 0 .. MaxStrLen : call_arena_strndup(str, n)
    \/ call_arena_reset
    \/ call_arena_free

ArenaInit == PoolStart /\ ArenaStart /\ InfoStart /\ ErgStart /\ SplitStart /\ mapped = [i \in Samples |-> 0]

ArenaSpec == ArenaInit /\ [][ArenaNext]_vars

(***************************************************************************)
(* Claims about the arena                                                  *)
(***************************************************************************)
\* the region's bytes all lie in the data[] of one chunk of the chain
Inside(r) ==
    /\ r.chunk \in 1 .. Len(arena.chunks)
    /\ r.off + r.size <= Len(arena.chunks[r.chunk].data)
\* two regions share no byte
Disjoint(r1, r2) ==
    \/ r1.size = 0 \/ r2.size = 0
    \/ r1.chunk # r2.chunk
    \/ r1.off + r1.size <= r2.off
    \/ r2.off + r2.size <= r1.off
\* the bytes copied into the region when it was handed out are still there
Intact(r) ==
    r.bytes # << >> =>
        \A k \in 1 .. Len(r.bytes) : arena.chunks[r.chunk].data[r.off + k] = r.bytes[k]
\* a step of an allocation call (alloc, strdup, strndup, reserve) that returned
AllocStep ==
    /\ nops' = nops + 1
    /\ lastOp'.op \in {"alloc", "strdup", "strndup", "reserve"}
    /\ astate' = "ok"
\* every chunk of the chain is still at its place with its capacity and block
ChainKept ==
    /\ Len(arena'.chunks) >= Len(arena.chunks)
    /\ \A i \in 1 .. Len(arena.chunks) :
          /\ arena'.chunks[i].capacity = arena.chunks[i].capacity
          /\ Len(arena'.chunks[i].data) = Len(arena.chunks[i].data)

\* C6: between arena_init and the next reset/free no allocation call
\* invalidates a pointer handed out before: every returned region lies wholly
\* inside one chunk and keeps its bytes, the regions are pairwise disjoint, and
\* no chunk is moved, resized or freed.
C6_PointerStability ==
    /\ [](astate = "ok" =>
             /\ \A k \in 1 .. Len(live) : Inside(live[k]) /\ Intact(live[k])
             /\ \A k1, k2 \in 1 .. Len(live) : k1 # k2 => Disjoint(live[k1], live[k2]))
    /\ [][AllocStep => ChainKept]_vars

\* C7: after any sequence of arena operations every chunk of the chain has
\* used <= capacity.
C7_UsedWithinCapacity ==
    astate = "ok" =>
        \A i \in 1 .. Len(arena.chunks) : arena.chunks[i].used <= arena.chunks[i].capacity

\* a step of arena_reset, and of an allocation that follows a reset
ResetStep == nops' = nops + 1 /\ lastOp'.op = "reset"
AllocAfterReset ==
    /\ lastOp.op = "reset"
    /\ nops' = nops + 1
    /\ lastOp'.op \in {"alloc", "strdup", "strndup"}

\* C8: arena_reset sets used = 0 in every chunk and makes the first chunk
\* current without freeing or resizing a chunk (same chain, same total
\* capacity), and allocation works again afterwards: a request that fits the
\* first chunk is served from its start.
C8_ResetFrame ==
    /\ [][ResetStep =>
             /\ astate' = "ok"
             /\ arena'.current = 1
             /\ Len(arena'.chunks) = Len(arena.chunks)
             /\ \A i \in 1 .. Len(arena.chunks) :
                   /\ arena'.chunks[i].used = 0
                   /\ arena'.chunks[i].capacity = arena.chunks[i].capacity
                   /\ arena'.chunks[i].data = arena.chunks[i].data
             /\ arena_get_capacity(arena') = arena_get_capacity(arena)
             /\ arena_get_used(arena') = 0]_vars
    /\ [][(AllocAfterReset /\ allocSum' <= Len(arena.chunks[1].data)) =>
             /\ astate' = "ok"
             /\ lastOp'.ret = <<1, 0>>
             /\ arena_get_used(arena') = allocSum'
             /\ Len(arena'.chunks) = Len(arena.chunks)]_vars

\* arena_reset ran on a chain of several chunks, and a string was then
\* duplicated into the start of the first chunk
C8_Witness ==
    /\ astate = "ok"
    /\ lastOp.prev = "reset"
    /\ lastOp.op = "strdup"
    /\ lastOp.ret = <<1, 0>>
    /\ Len(arena.chunks) >= 2
    /\ arena.chunks[1].used > 0

\* a step of arena_reserve that returned
ReserveStep == nops' = nops + 1 /\ lastOp'.op = "reserve" /\ astate' = "ok"

\* C9: after arena_reserve(total) returns the summed capacity is >= total, and
\* the call only appended chunks: every chunk that existed keeps its capacity,
\* its used count and its bytes, and if the capacity was already >= total
\* nothing changes.
C9_ReserveFrame ==
    [][ReserveStep =>
          /\ arena_get_capacity(arena') >= lastOp'.arg
          /\ SumOver(arena'.chunks, "capacity", 1) >= lastOp'.arg
          /\ Len(arena'.chunks) >= Len(arena.chunks)
          /\ \A i \in 1 .. Len(arena.chunks) : arena'.chunks[i] = arena.chunks[i]
          /\ arena'.current = arena.current
          /\ arena_get_capacity(arena) >= lastOp'.arg => arena' = arena]_vars

\* arena_reserve returned after appending to a chain that holds live bytes
C9_Witness ==
    /\ astate = "ok"
    /\ lastOp.op = "reserve"
    /\ Len(arena.chunks) >= 2
    /\ Len(live) >= 1
    /\ arena.chunks[1].used > 0
    /\ arena.chunks[Len(arena.chunks)].used = 0

\* C10: right after arena_init(s) the capacity is s and used is 0; afterwards
\* arena_get_used equals the sum of the sizes of the allocations made since
\* init or the last reset (strdup/strndup counting n + 1), and the capacity
\* never decreases.
C10_UsedIsSumOfSizes ==
    /\ [][(nops' = nops + 1 /\ lastOp'.op = "init" /\ astate' = "ok") =>
             /\ arena_get_capacity(arena') = lastOp'.arg
             /\ arena_get_used(arena') = 0]_vars
    /\ [](astate = "ok" => arena_get_used(arena) = allocSum)
    /\ [][AllocStep => arena_get_capacity(arena') >= arena_get_capacity(arena)]_vars

(***************************************************************************)
(* Info-file parser (infofile_parse_string).  A line is the sequence of    *)
(* its bytes, a byte a one-character string; positions are byte offsets    *)
(* into the line, ranges half-open [str, str_end) as in the code.          *)
(***************************************************************************)
\* number of lines of the parsed buffer
MaxLines == 3
\* bytes per AVX2 step (the `len >= 32` / `ptr + 32 <= end` of the scans)
VecWidth == 32

SP == " "
HT == "\t"
CR == "\r"
NL == "\n"
EQ == "="
COLON == ":"
HASH == "#"
\* sep_char = '\0': no separator found
NUL == "NUL"

\* the byte at offset p of the line
At(line, p) == line[p + 1]
\* the bytes [a, b) of the line
Slice(line, a, b) == SubSeq(line, a + 1, b)
\* n copies of byte c
Pad(n, c) == [k \in 1 .. n |-> c]
\* smallest element of a non-empty set of offsets (__builtin_ctz of a mask)
Ctz(S) == CHOOSE p \in S : \A q \in S : p <= q

IsWs(c) == c \in {SP, HT, CR, NL}

\* the scalar loop of simd_skip_leading_whitespace
RECURSIVE SkipWsScalar(_, _, _)
SkipWsScalar(line, ptr, end) ==
    IF ptr < end /\ IsWs(At(line, ptr)) THEN SkipWsScalar(line, ptr + 1, end) ELSE ptr

\* the vector loop of simd_skip_leading_whitespace: the first non-whitespace
\* byte of the first 32-byte step that holds one, else NoPos
NoPos == 0 - 1
RECURSIVE SkipWsVector(_, _, _)
SkipWsVector(line, ptr, end) ==
    IF ptr + VecWidth <= end
    THEN LET non_ws == {p \in ptr .. (ptr + VecWidth - 1) : ~IsWs(At(line, p))}
         IN  IF non_ws # {} THEN Ctz(non_ws) ELSE SkipWsVector(line, ptr + VecWidth, end)
    ELSE NoPos

simd_skip_leading_whitespace(line, str, end) ==
    LET v == IF end - str >= VecWidth THEN SkipWsVector(line, str, end) ELSE NoPos
    IN  IF v # NoPos THEN v ELSE SkipWsScalar(line, str, end)

RECURSIVE simd_skip_trailing_whitespace(_, _, _)
simd_skip_trailing_whitespace(line, str, end) ==
    IF end - 1 >= str /\ IsWs(At(line, end - 1))
    THEN simd_skip_trailing_whitespace(line, str, end - 1) ELSE end

\* simd_trim_zero_copy: <<start, end>> of the trimmed range
simd_trim_zero_copy(line, str, str_end) ==
    LET s == simd_skip_leading_whitespace(line, str, str_end)
    IN  IF s >= str_end THEN <<str_end, str_end>>
        ELSE <<s, simd_skip_trailing_whitespace(line, str, str_end)>>

SepInfo(c, pos) == [sep_char |-> c, sep_pos |-> pos]

\* the scalar loop of simd_find_special_chars
RECURSIVE FindSpecialScalar(_, _, _)
FindSpecialScalar(line, ptr, str_end) ==
    IF ~(ptr < str_end) THEN SepInfo(NUL, NoPos)
    ELSE IF At(line, ptr) \in {HASH, EQ, COLON} THEN SepInfo(At(line, ptr), ptr)
    ELSE FindSpecialScalar(line, ptr + 1, str_end)

\* the vector loop of simd_find_special_chars: in each 32-byte step a '#'
\* anywhere in the step is taken first, then the earlier of '=' and ':'
RECURSIVE FindSpecialVector(_, _, _)
FindSpecialVector(line, ptr, str_end) ==
    IF ptr + VecWidth <= str_end
    THEN LET step == ptr .. (ptr + VecWidth - 1)
             mask_eq == {p \in step : At(line, p) = EQ}
             mask_colon == {p \in step : At(line, p) = COLON}
             mask_hash == {p \in step : At(line, p) = HASH}
         IN  IF mask_hash # {} THEN SepInfo(HASH, Ctz(mask_hash))
             ELSE IF mask_eq # {} /\ mask_colon # {}
             THEN IF Ctz(mask_eq) < Ctz(mask_colon)
                  THEN SepInfo(EQ, Ctz(mask_eq)) ELSE SepInfo(COLON, Ctz(mask_colon))
             ELSE IF mask_eq # {} THEN SepInfo(EQ, Ctz(mask_eq))
             ELSE IF mask_colon # {} THEN SepInfo(COLON, Ctz(mask_colon))
             ELSE FindSpecialVector(line, ptr + VecWidth, str_end)
    ELSE FindSpecialScalar(line, ptr, str_end)

simd_find_special_chars(line, str, str_end) ==
    IF str_end - str >= VecWidth
    THEN FindSpecialVector(line, str, str_end)
    ELSE FindSpecialScalar(line, str, str_end)

\* byte offset at which the next line of the buffer starts
RECURSIVE FileLen(_)
FileLen(f) == IF f = << >> THEN 0 ELSE Len(Head(f)) + 1 + FileLen(Tail(f))

\* the parse as a record: the table, the locals, and the key-line offsets
ParseState == [entries |-> entries, current_key |-> current_key,
               value_buffer |-> value_buffer, is_multiline |-> is_multiline,
               keyAt |-> keyAt, pendingAt |-> pendingAt]

\* SavePending that stores the pending entry in slot 0, shifting the table
SavePendingAtHead(st) ==
    IF st.current_key # NoKey
    THEN [st EXCEPT !.entries = <<[key |-> st.current_key, value |-> st.value_buffer]>> \o @,
                    !.keyAt = <<st.pendingAt>> \o @,
                    !.current_key = NoKey,
                    !.value_buffer = << >>,
                    !.is_multiline = FALSE]
    ELSE st

\* "If we have a pending multiline value, save it": the pending entry is
\* written at entries[count] with the buffered value (or "") and count++
SavePending(st) ==
    IF st.current_key # NoKey
    THEN [st EXCEPT !.entries = Append(@, [key |-> st.current_key, value |-> st.value_buffer]),
                    !.keyAt = Append(@, st.pendingAt),
                    !.current_key = NoKey,
                    !.value_buffer = << >>,
                    !.is_multiline = FALSE]
    ELSE st

\* the continuation branch: append the trimmed content to the value buffer,
\* after a '\n' when the buffer already holds bytes
AppendContinuation(st, content) ==
    IF st.is_multiline /\ Len(content) > 0
    THEN [st EXCEPT !.value_buffer =
              (IF Len(@) > 0 THEN Append(@, NL) ELSE @) \o content]
    ELSE st

\* the '=' branch: key = trim(left), value = trim(right), one entry committed
CommitSingle(st, line, ts, te, sep_pos, off) ==
    LET k == simd_trim_zero_copy(line, ts, sep_pos)
        v == simd_trim_zero_copy(line, sep_pos + 1, te)
    IN  [st EXCEPT !.entries = Append(@, [key |-> Slice(line, k[1], k[2]),
                                          value |-> Slice(line, v[1], v[2])]),
                   !.keyAt = Append(@, off),
                   !.current_key = NoKey]

\* the ':' branch: the key becomes pending, the trimmed tail seeds the buffer
OpenMultiline(st, line, ts, te, sep_pos, off) ==
    LET k == simd_trim_zero_copy(line, ts, sep_pos)
        a == simd_trim_zero_copy(line, sep_pos + 1, te)
    IN  [st EXCEPT !.current_key = Slice(line, k[1], k[2]),
                   !.pendingAt = off,
                   !.value_buffer = IF sep_pos + 1 < te /\ a[2] - a[1] > 0
                                    THEN Slice(line, a[1], a[2]) ELSE << >>,
                   !.is_multiline = TRUE]

\* a loop body that takes an indented line for a continuation only while a
\* multi-line value is open
parse_line_indented_entries(st, raw, off) ==
    LET line_end == IF Len(raw) > 0 /\ raw[Len(raw)] = CR THEN Len(raw) - 1 ELSE Len(raw)
        t == simd_trim_zero_copy(raw, 0, line_end)
        trim_start == t[1]
        trim_end == t[2]
        is_continuation == /\ st.is_multiline
                           /\ line_end > 0
                           /\ (raw[1] = HT \/ (raw[1] = SP /\ line_end > 1))
    IN  IF line_end = 0 THEN st
        ELSE IF trim_start >= trim_end \/ At(raw, trim_start) = HASH THEN st
        ELSE IF is_continuation
        THEN AppendContinuation(st, Slice(raw, trim_start, trim_end))
        ELSE LET saved == SavePending(st)
                 sep_info == simd_find_special_chars(raw, trim_start, trim_end)
             IN  IF sep_info.sep_char = EQ
                 THEN CommitSingle(saved, raw, trim_start, trim_end, sep_info.sep_pos, off)
                 ELSE IF sep_info.sep_char = COLON
                 THEN OpenMultiline(saved, raw, trim_start, trim_end, sep_info.sep_pos, off)
                 ELSE saved

\* one iteration of the while loop of infofile_parse_string on the bytes `raw`
\* of the next line, which starts at byte offset off
parse_line(st, raw, off) ==
    LET line_end == IF Len(raw) > 0 /\ raw[Len(raw)] = CR THEN Len(raw) - 1 ELSE Len(raw)
        t == simd_trim_zero_copy(raw, 0, line_end)
        trim_start == t[1]
        trim_end == t[2]
        is_continuation == line_end > 0 /\ (raw[1] = HT \/ (raw[1] = SP /\ line_end > 1))
    IN  IF line_end = 0 THEN st
        ELSE IF trim_start >= trim_end \/ At(raw, trim_start) = HASH THEN st
        ELSE IF is_continuation
        THEN AppendContinuation(st, Slice(raw, trim_start, trim_end))
        ELSE LET saved == SavePending(st)
                 sep_info == simd_find_special_chars(raw, trim_start, trim_end)
             IN  IF sep_info.sep_char = EQ
                 THEN CommitSingle(saved, raw, trim_start, trim_end, sep_info.sep_pos, off)
                 ELSE IF sep_info.sep_char = COLON
                 THEN OpenMultiline(saved, raw, trim_start, trim_end, sep_info.sep_pos, off)
                 ELSE saved

\* lines the parsed buffer is made of
ShortLines ==
    { << >>, <<SP>>, <<HASH, "a">>, <<"b">>,
      <<"a", EQ, "b">>, <<"b", SP, EQ, SP, "a", CR>>, <<"a", EQ, "b", EQ, "a">>,
      <<"b", EQ, "a", COLON, "b">>, <<"a", EQ, "b", HASH, "a">>, <<"b", EQ>>,
      <<"a", COLON>>, <<"b", COLON, SP, "a">>, <<"a", COLON, "b", EQ, "a">>,
      <<SP, "a">>, <<HT, "b", SP>>, <<HT, HASH, "a">>, <<SP, "a", EQ, "b">>,
      <<HT, "a", COLON>> }
LongLines ==
    { <<"a", EQ, "b", HASH>> \o Pad(VecWidth - 4, "a"),
      <<"b", EQ>> \o Pad(VecWidth - 2, "a") \o <<HASH, "a">>,
      <<"a", COLON>> \o Pad(VecWidth - 2, "b") \o <<EQ>>,
      Pad(VecWidth, "b") \o <<EQ, "a">> }
Lines == ShortLines \cup LongLines

\* the loop body consumes the next line of the buffer
infofile_parse_string_line(raw) ==
    /\ ipc = "parsing"
    /\ Len(file) < MaxLines
    /\ LET st == parse_line(ParseState, raw, FileLen(file))
       IN  /\ entries' = st.entries
           /\ current_key' = st.current_key
           /\ value_buffer' = st.value_buffer
           /\ is_multiline' = st.is_multiline
           /\ keyAt' = st.keyAt
           /\ pendingAt' = st.pendingAt
    /\ file' = Append(file, raw)
    /\ UNCHANGED <<ipc, notInfo>>

\* end of the buffer: "Save any pending value", free the buffer, return
infofile_parse_string_end ==
    /\ ipc = "parsing"
    /\ LET st == SavePending(ParseState)
       IN  /\ entries' = st.entries
           /\ keyAt' = st.keyAt
    /\ ipc' = "done"
    /\ UNCHANGED <<current_key, value_buffer, is_multiline, pendingAt, file, notInfo>>

\* infofile_get(info, key): the value of the first entry with that key
NoValue == <<"NULL">>
infofile_get(ents, key) ==
    LET hits == {n \in 1 .. Len(ents) : ents[n].key = key}
    IN  IF hits = {} THEN NoValue ELSE ents[Ctz(hits)].value

InfoNext ==
    \/ \E raw \in Lines : infofile_parse_string_line(raw)
    \/ infofile_parse_string_end

InfoInit == PoolStart /\ ArenaStart /\ InfoStart /\ ErgStart /\ SplitStart /\ mapped = [i \in Samples |-> 0]

InfoSpec == InfoInit /\ [][InfoNext]_vars

(***************************************************************************)
(* Claims about the info-file parser.  The Spec* operators state the line  *)
(* syntax of the format: they are what the parse is compared with.         *)
(***************************************************************************)
RECURSIVE SpecTrimLeft(_)
SpecTrimLeft(x) == IF x # << >> /\ IsWs(Head(x)) THEN SpecTrimLeft(Tail(x)) ELSE x
RECURSIVE SpecTrimRight(_)
SpecTrimRight(x) ==
    IF x # << >> /\ IsWs(x[Len(x)]) THEN SpecTrimRight(SubSeq(x, 1, Len(x) - 1)) ELSE x
SpecTrim(x) == SpecTrimRight(SpecTrimLeft(x))
\* the line without its trailing '\r'
SpecBody(raw) ==
    IF raw # << >> /\ raw[Len(raw)] = CR THEN SubSeq(raw, 1, Len(raw) - 1) ELSE raw
SpecBlank(raw) == SpecTrim(SpecBody(raw)) = << >>
SpecComment(raw) == ~SpecBlank(raw) /\ Head(SpecTrim(SpecBody(raw))) = HASH
SpecContinuation(raw) ==
    LET b == SpecBody(raw)
    IN  b # << >> /\ (b[1] = HT \/ (b[1] = SP /\ Len(b) > 1))
\* index of the first of '#', '=', ':' in the line (0: none), and that byte
SpecSepAt(raw) ==
    LET b == SpecBody(raw)
        S == {q \in 1 .. Len(b) : b[q] \in {HASH, EQ, COLON}}
    IN  IF S = {} THEN 0 ELSE Ctz(S)
SpecSep(raw) == IF SpecSepAt(raw) = 0 THEN NUL ELSE SpecBody(raw)[SpecSepAt(raw)]
\* a line that is classified: not blank, not a comment, not a continuation
SpecClassified(raw) == ~SpecBlank(raw) /\ ~SpecComment(raw) /\ ~SpecContinuation(raw)
SpecKeyLine(raw) == SpecClassified(raw) /\ SpecSep(raw) \in {EQ, COLON}
SpecKey(raw) == SpecTrim(SubSeq(SpecBody(raw), 1, SpecSepAt(raw) - 1))
SpecValue(raw) ==
    SpecTrim(SubSeq(SpecBody(raw), SpecSepAt(raw) + 1, Len(SpecBody(raw))))
\* the value of the multi-line entry whose lines after the key line start at
\* index j: the trimmed contents of its continuation lines joined with '\n'
RECURSIVE SpecCollect(_, _, _)
SpecCollect(f, j, acc) ==
    IF j > Len(f) THEN acc
    ELSE IF SpecContinuation(f[j])
    THEN LET c == SpecTrim(SpecBody(f[j]))
         IN  SpecCollect(f, j + 1,
                 IF c = << >> THEN acc
                 ELSE IF acc = << >> THEN c ELSE Append(acc, NL) \o c)
    ELSE IF SpecBlank(f[j]) \/ SpecComment(f[j]) THEN SpecCollect(f, j + 1, acc)
    ELSE acc

\* byte offset of line j of the buffer
OffsetOf(j) == FileLen(SubSeq(file, 1, j - 1))
\* line j carries a key that no earlier key line carries
FirstWithKey(j) ==
    /\ SpecKeyLine(file[j])
    /\ \A i \in 1 .. (j - 1) : SpecKeyLine(file[i]) => SpecKey(file[i]) # SpecKey(file[j])
\* the parser took line j for a key line
Observed(j) ==
    SpecClassified(file[j]) /\
        simd_find_special_chars(file[j], simd_trim_zero_copy(file[j], 0, Len(SpecBody(file[j])))[1],
                                simd_trim_zero_copy(file[j], 0, Len(SpecBody(file[j])))[2]).sep_char
            \in {EQ, COLON}

\* C11: entries stand in the table in the order of the byte offsets of their
\* key lines: each entry's key was observed on the line at its offset, offsets
\* grow strictly along the table, a pending multi-line entry has a larger
\* offset than every committed one, and at the end every observed key line has
\* its entry.
C11_EntryOrder ==
    /\ Len(keyAt) = Len(entries)
    /\ \A n \in 1 .. Len(entries) :
          \E j \in 1 .. Len(file) :
              /\ OffsetOf(j) = keyAt[n]
              /\ Observed(j)
              /\ SpecKey(file[j]) = entries[n].key
    /\ \A m, n \in 1 .. Len(keyAt) : m < n => keyAt[m] < keyAt[n]
    /\ (ipc = "parsing" /\ current_key # NoKey) =>
          \A n \in 1 .. Len(keyAt) : keyAt[n] < pendingAt
    /\ ipc = "done" =>
          \A j \in 1 .. Len(file) :
              Observed(j) => \E n \in 1 .. Len(keyAt) : keyAt[n] = OffsetOf(j)

\* a multi-line entry with a seed and a continuation line was committed when
\* the next key line came, and that line's entry follows it
C11_Witness ==
    /\ ipc = "done"
    /\ Len(entries) = 2
    /\ \E q \in 1 .. Len(entries[1].value) : entries[1].value[q] = NL
    /\ keyAt[1] < keyAt[2]
    /\ entries[2].value # << >>

\* C12: for every single-line entry K = V of the buffer whose key is no
\* duplicate of an earlier key, get(K) is exactly trim(V), later '=' and ':'
\* (and any other byte of V) included.
C12_LookupFidelity ==
    ipc = "done" =>
        \A j \in 1 .. Len(file) :
            (FirstWithKey(j) /\ SpecSep(file[j]) = EQ) =>
                infofile_get(entries, SpecKey(file[j])) = SpecValue(file[j])

\* C13: for every multi-line entry K: (key no duplicate) get(K) is the seed
\* and the trimmed non-empty contents of its continuation lines joined with
\* '\n'; no continuation line of the open value is dropped.
C13_MultilineFidelity ==
    ipc = "done" =>
        \A j \in 1 .. Len(file) :
            (FirstWithKey(j) /\ SpecSep(file[j]) = COLON) =>
                infofile_get(entries, SpecKey(file[j]))
                    = SpecCollect(file, j + 1, SpecValue(file[j]))

\* C14: every non-blank, non-comment, non-continuation line is classified by
\* the first of '#', '=', ':' in it, whatever its length; a line whose '='
\* comes first is committed as a single-line entry with everything after the
\* '=' (a later '#' included) as its value.
C14_Classification ==
    \A j \in 1 .. Len(file) :
        SpecClassified(file[j]) =>
            LET raw == file[j]
                t == simd_trim_zero_copy(raw, 0, Len(SpecBody(raw)))
                found == simd_find_special_chars(raw, t[1], t[2])
            IN  /\ found.sep_char = SpecSep(raw)
                /\ found.sep_char # NUL => found.sep_pos + 1 = SpecSepAt(raw)
                /\ SpecSep(raw) = EQ =>
                      \E n \in 1 .. Len(entries) :
                          /\ keyAt[n] = OffsetOf(j)
                          /\ entries[n].key = SpecKey(raw)
                          /\ entries[n].value = SpecValue(raw)

(***************************************************************************)
(* The archive (erg.c, the memory-mapped version).  A C string is the      *)
(* sequence of its bytes, a byte of a string a one-character string; a     *)
(* byte of the data file is an integer 0 .. 255 and an address is a byte   *)
(* offset into the mapped file.                                            *)
(***************************************************************************)
ERG_HEADER_SIZE == 16

\* enum ERGSIMDLevel, in the order the dispatch compares it
ERG_SIMD_NONE == 0
ERG_SIMD_SSE2 == 1
ERG_SIMD_AVX2 == 2
ERG_SIMD_AVX512 == 3
SimdLevels == ERG_SIMD_NONE .. ERG_SIMD_AVX512

S_Float == <<"F", "l", "o", "a", "t">>
S_Double == <<"D", "o", "u", "b", "l", "e">>
S_LongLong == <<"L", "o", "n", "g", "L", "o", "n", "g">>
S_ULongLong == <<"U">> \o S_LongLong
S_Int == <<"I", "n", "t">>
S_UInt == <<"U">> \o S_Int
S_Short == <<"S", "h", "o", "r", "t">>
S_UShort == <<"U">> \o S_Short
S_Char == <<"C", "h", "a", "r">>
S_UChar == <<"U">> \o S_Char
S_Bytes == <<"B", "y", "t", "e", "s">>
S_LittleEndian == <<"L", "i", "t", "t", "l", "e", "E", "n", "d", "i", "a", "n">>
S_BigEndian == <<"B", "i", "g", "E", "n", "d", "i", "a", "n">>

\* strstr(haystack, needle) != NULL
strstr(haystack, needle) ==
    \E i \in 0 .. (Len(haystack) - Len(needle)) :
        SubSeq(haystack, i + 1, i + Len(needle)) = needle

Digits == <<"0", "1", "2", "3", "4", "5", "6", "7", "8", "9">>
IsDigit(c) == \E d \in 1 .. 10 : Digits[d] = c
DigitVal(c) == (CHOOSE d \in 1 .. 10 : Digits[d] = c) - 1

RECURSIVE AtoiDigits(_, _, _)
AtoiDigits(str, p, acc) ==
    IF p <= Len(str) /\ IsDigit(str[p])
    THEN AtoiDigits(str, p + 1, acc * 10 + DigitVal(str[p]))
    ELSE acc

RECURSIVE AtoiSkip(_, _)
AtoiSkip(str, p) ==
    IF p <= Len(str) /\ str[p] \in {" ", "\t", "\n", "\r", "\f"}
    THEN AtoiSkip(str, p + 1)
    ELSE p

\* atoi: leading white space, an optional sign, then the decimal digits
atoi(str) ==
    LET p == AtoiSkip(str, 1) IN
    IF p <= Len(str) /\ str[p] = "-" THEN 0 - AtoiDigits(str, p + 1, 0)
    ELSE IF p <= Len(str) /\ str[p] = "+" THEN AtoiDigits(str, p + 1, 0)
    ELSE AtoiDigits(str, p, 0)

\* parse_data_type: <<type, type_size>>
parse_data_type(type_str) ==
    IF type_str = S_Float THEN <<"ERG_FLOAT", 4>>
    ELSE IF type_str = S_Double THEN <<"ERG_DOUBLE", 8>>
    ELSE IF type_str = S_LongLong THEN <<"ERG_LONGLONG", 8>>
    ELSE IF type_str = S_ULongLong THEN <<"ERG_ULONGLONG", 8>>
    ELSE IF type_str = S_Int THEN <<"ERG_INT", 4>>
    ELSE IF type_str = S_UInt THEN <<"ERG_UINT", 4>>
    ELSE IF type_str = S_Short THEN <<"ERG_SHORT", 2>>
    ELSE IF type_str = S_UShort THEN <<"ERG_USHORT", 2>>
    ELSE IF type_str = S_Char THEN <<"ERG_CHAR", 1>>
    ELSE IF type_str = S_UChar THEN <<"ERG_UCHAR", 1>>
    ELSE IF strstr(type_str, S_Bytes) /\ atoi(type_str) >= 1 /\ atoi(type_str) <= 8
         THEN <<"ERG_BYTES", atoi(type_str)>>
    ELSE <<"ERG_UNKNOWN", 0>>

\* the largest number of complete rows of a data file of the model
MaxRows == 65
RowCounts == {0, 1, 2, 17, 33, MaxRows}
Seeds == {101}

\* a double of the info file, counted in halves: Dbl(n) is n.0 and DblHalf(n) is
\* n.5, so that a scaling with a fraction can be told from its truncation
Dbl(n) == 2 * n
DblHalf(n) == 2 * n + 1

\* one File.At.N binding of the info file: the name, the type string (NoValue:
\* File.At.N.Type is absent) and the values atof gives for Quantity.<name>.Factor
\* and .Offset (1.0 and 0.0 when those keys are absent)
Sig(name, type_str, factor, offset) ==
    [name |-> name, type_str |-> type_str, factor |-> factor, offset |-> offset]

Plain(name, type_str) == Sig(name, type_str, Dbl(1), Dbl(0))

Info(byte_order, sigs) == [byte_order |-> byte_order, sigs |-> sigs]

Schemas ==
    { <<Plain(<<"a">>, S_UChar)>>,
      <<Plain(<<"a">>, S_UShort)>>,
      <<Plain(<<"a">>, S_UChar), Plain(<<"b">>, S_Short)>>,
      <<Plain(<<"a">>, S_Float), Plain(<<"b">>, S_Double)>>,
      <<Plain(<<"a">>, S_Char), Plain(<<"b">>, S_UInt)>>,
      <<Plain(<<"a">>, <<"3", " ">> \o S_Bytes), Plain(<<"b">>, S_LongLong)>>,
      <<Sig(<<"a">>, S_Short, Dbl(2), Dbl(1)), Sig(<<"b">>, S_UChar, Dbl(1), Dbl(3))>>,
      <<Sig(<<"a">>, S_Int, Dbl(3), Dbl(1)), Sig(<<"b">>, <<"3", " ">> \o S_Bytes, Dbl(2), Dbl(1))>>,
      <<Sig(<<"a">>, S_Char, Dbl(0 - 1), DblHalf(1)), Sig(<<"b">>, S_Float, Dbl(2), Dbl(0))>>,
      <<Sig(<<"a">>, S_UShort, DblHalf(1), Dbl(0)), Sig(<<"b">>, S_LongLong, DblHalf(0), Dbl(0 - 1))>>,
      <<Plain(<<"a">>, S_Int), Plain(<<"b">>, <<"B", "o", "o", "l">>)>>,
      <<Plain(<<"a">>, <<"f", "l", "o", "a", "t">>)>>,
      <<Plain(<<"a">>, <<"9", " ">> \o S_Bytes)>>,
      <<Plain(<<"a">>, S_UChar), Plain(<<"b">>, NoValue)>>,
      <<>> }

Infos ==
    {Info(S_LittleEndian, sigs) : sigs \in Schemas}
        \cup {Info(S_BigEndian, <<Plain(<<"a">>, S_UChar)>>),
              Info(NoValue, <<Plain(<<"a">>, S_UChar)>>)}

\* names asked of erg_get_signal: two the schemas use and one none of them uses
Names == {<<"a">>, <<"b">>, <<"z">>}

\* the bytes of a data file of the given size
ErgFile(size, seed) == [p \in 1 .. size |-> (seed + 37 * (p - 1)) % 256]

RECURSIVE SumSizes(_, _)
\* the sum of type_size over signals[0 .. n)
SumSizes(signals, n) ==
    IF n = 0 THEN 0 ELSE SumSizes(signals, n - 1) + signals[n].type_size

\* the row size the type strings of an info file give
RowBytes(info) ==
    LET sized == [i \in 1 .. Len(info.sigs) |->
                    [type_size |-> IF info.sigs[i].type_str = NoValue THEN 0
                                   ELSE parse_data_type(info.sigs[i].type_str)[2]]]
    IN SumSizes(sized, Len(sized))

FileSizes(info) ==
    {ERG_HEADER_SIZE + r * RowBytes(info) + x : r \in RowCounts, x \in {0, 1}}
        \cup {ERG_HEADER_SIZE - 1}

\* erg_init: the structure is zeroed and the SIMD level is what cpuid reports
erg_init(level) ==
    /\ erg.st = "none"
    /\ erg' = [NoErg EXCEPT !.st = "init", !.simd_level = level]
    /\ UNCHANGED <<erg_info, erg_file, avx512_built, got>>
    /\ UNCHANGED notErg

\* erg_set_simd_level
erg_set_simd_level(level) ==
    /\ erg.st \in {"init", "parsed"}
    /\ erg' = [erg EXCEPT !.simd_level = level]
    /\ UNCHANGED <<erg_info, erg_file, avx512_built, got>>
    /\ UNCHANGED notErg

\* the signal array erg_parse builds from the File.At.N bindings
ParsedSignals(info) ==
    [i \in 1 .. Len(info.sigs) |->
        LET t == parse_data_type(info.sigs[i].type_str) IN
        [name |-> info.sigs[i].name, type |-> t[1], type_size |-> t[2],
         factor |-> info.sigs[i].factor, offset |-> info.sigs[i].offset]]

\* exit(1) of erg_parse or erg_get_signal after the FATAL diagnostic diag
Fatal(e, diag) == [e EXCEPT !.st = "exited", !.diag = diag]

\* a sample count that rounds a trailing partial row up to a sample
RowsInRoundedUp(data_size, row_size) == (data_size + row_size - 1) \div row_size

\* erg->sample_count = erg->data_size / erg->row_size
RowsIn(data_size, row_size) == data_size \div row_size

\* erg_parse, given whether mmap succeeds
ParseResult(e, info, data_file, mmap_ok) ==
    LET signals == ParsedSignals(info)
        row_size == SumSizes(signals, Len(signals))
        file_size == Len(data_file)
        data_size == file_size - ERG_HEADER_SIZE
    IN  IF info.byte_order = NoValue THEN Fatal(e, "File.ByteOrder not found")
        ELSE IF info.byte_order # S_LittleEndian THEN Fatal(e, "Only little-endian")
        ELSE IF Len(info.sigs) = 0 THEN Fatal(e, "No signals found")
        ELSE IF \E i \in 1 .. Len(info.sigs) : info.sigs[i].type_str = NoValue
             THEN Fatal(e, "Data type not found")
        ELSE IF file_size <= ERG_HEADER_SIZE
             THEN Fatal([e EXCEPT !.signals = signals, !.signal_count = Len(signals),
                                  !.row_size = row_size],
                        "ERG file too small")
        ELSE IF row_size = 0
             THEN Fatal([e EXCEPT !.signals = signals, !.signal_count = Len(signals),
                                  !.row_size = row_size, !.data_size = data_size,
                                  !.data_offset = ERG_HEADER_SIZE],
                        "Invalid row size")
        ELSE LET parsed ==
                    [e EXCEPT !.signals = signals, !.signal_count = Len(signals),
                              !.row_size = row_size, !.data_size = data_size,
                              !.data_offset = ERG_HEADER_SIZE,
                              !.warned = (data_size % row_size # 0),
                              !.sample_count = RowsIn(data_size, row_size)]
             IN  IF mmap_ok
                 THEN [parsed EXCEPT !.st = "parsed", !.mapped_data = "mapped",
                                     !.mapped_size = file_size]
                 ELSE Fatal([parsed EXCEPT !.mapped_size = file_size],
                            "Failed to memory-map")

erg_parse ==
    /\ erg.st = "init"
    /\ \E mmap_ok \in BOOLEAN : erg' = ParseResult(erg, erg_info, erg_file, mmap_ok)
    /\ UNCHANGED <<erg_info, erg_file, avx512_built, got>>
    /\ UNCHANGED notErg

(***************************************************************************)
(* The extraction kernels.  A vector register is the sequence of its       *)
(* bytes, lowest first; an element of width w is w consecutive bytes,      *)
(* little-endian.  A kernel yields the bytes it stores and the last        *)
(* address it loads.                                                       *)
(***************************************************************************)
\* the byte at an address of the mapping; past the file's last byte a mapped page is
\* zero-filled
Mem(data_file, a) == IF a < Len(data_file) THEN data_file[a + 1] ELSE 0

\* memcpy(dst, src + a, w), and a load of w bytes
Copy(data_file, a, w) == [k \in 1 .. w |-> Mem(data_file, a + k - 1)]

Zeros(n) == [k \in 1 .. n |-> 0]

Max(a, b) == IF a > b THEN a ELSE b

\* element k (from 1) of a register of elements of width w
Elem(reg, k, w) == SubSeq(reg, (k - 1) * w + 1, k * w)

RECURSIVE ScalarLoop(_, _, _, _, _, _)
\* for (i = from; i < sample_count; i++) memcpy(signal_data + i*E, src + i*row_size, E)
ScalarLoop(data_file, src, from, sample_count, element_size, row_size) ==
    IF from >= sample_count THEN <<>>
    ELSE Copy(data_file, src + from * row_size, element_size)
            \o ScalarLoop(data_file, src, from + 1, sample_count, element_size, row_size)

\* what a kernel did: the bytes stored to signal_data and the last address loaded
Done(bytes, last) == [bytes |-> bytes, last |-> last]

\* the last address a loop loading w bytes per sample touches (-1: none)
LastLoad(src, sample_count, row_size, w) ==
    IF sample_count = 0 \/ w = 0 THEN 0 - 1
    ELSE src + (sample_count - 1) * row_size + w - 1

extract_signal_scalar(data_file, src, sample_count, element_size, row_size) ==
    Done(ScalarLoop(data_file, src, 0, sample_count, element_size, row_size),
         LastLoad(src, sample_count, row_size, element_size))

\* _mm_cvtsi32_si128 / _mm_loadl_epi64 of one loaded element: the element in the low
\* bytes of a 16-byte register, the rest zero
LowElem(bytes) == bytes \o Zeros(16 - Len(bytes))

\* _mm_unpacklo_epi8/16/32/64: interleave the elements of the two low halves
unpacklo(a, b, w) ==
    [j \in 1 .. 16 |->
        LET k == (j - 1) \div w
            off == (j - 1) % w
        IN  IF k % 2 = 0 THEN a[(k \div 2) * w + off + 1] ELSE b[(k \div 2) * w + off + 1]]

RECURSIVE UnpackTree(_, _)
\* the chain of unpacklo steps of the SSE2 kernels: neighbours are interleaved at
\* width w, then the results at width 2w, until one register is left
UnpackTree(regs, w) ==
    IF Len(regs) = 1 THEN regs[1]
    ELSE UnpackTree([k \in 1 .. (Len(regs) \div 2) |->
                        unpacklo(regs[2 * k - 1], regs[2 * k], w)], 2 * w)

RECURSIVE Sse2Loop(_, _, _, _, _, _)
\* the vector loop of extract_signal_{1,2,4,8}byte_sse2: 16/E samples per step
Sse2Loop(data_file, src, i, simd_samples, element_size, row_size) ==
    IF i >= simd_samples THEN <<>>
    ELSE LET per == 16 \div element_size
             vals == [k \in 1 .. per |->
                        LowElem(Copy(data_file, src + (i + k - 1) * row_size, element_size))]
         IN  UnpackTree(vals, element_size)
                \o Sse2Loop(data_file, src, i + per, simd_samples, element_size, row_size)

\* a vector loop followed by the scalar loop of the remaining samples; load_width is
\* the number of bytes the vector loop loads per sample
WithTail(vector_bytes, data_file, src, simd_samples, sample_count, element_size, row_size, load_width) ==
    Done(vector_bytes
            \o ScalarLoop(data_file, src, simd_samples, sample_count, element_size, row_size),
         Max(LastLoad(src, simd_samples, row_size, load_width),
             LastLoad(src, sample_count, row_size, element_size)))

extract_signal_sse2(data_file, src, sample_count, element_size, row_size) ==
    LET per == 16 \div element_size
        simd_samples == (sample_count \div per) * per
    IN  WithTail(Sse2Loop(data_file, src, 0, simd_samples, element_size, row_size),
                 data_file, src, simd_samples, sample_count, element_size, row_size,
                 element_size)

\* _mm256_i32gather_epi32 / _mm512_i32gather_epi32 with scale 1 and the index vector
\* <<0, row_size, 2*row_size, ...>>: n loads of 4 bytes, row_size apart
Gather32(data_file, base, row_size, n) ==
    [j \in 1 .. (4 * n) |-> Mem(data_file, base + ((j - 1) \div 4) * row_size + ((j - 1) % 4))]

\* _mm256_and_si256 / _mm512_and_epi32 with _mm*_set1_epi32(mask), the mask given by its bytes
AndMask(reg, mask) ==
    [j \in 1 .. Len(reg) |-> IF mask[((j - 1) % 4) + 1] = 255 THEN reg[j] ELSE 0]

MASK_0000FFFF == <<255, 255, 0, 0>>
MASK_000000FF == <<255, 0, 0, 0>>

\* signed saturation of one element to half its width
Saturate(elem) ==
    LET w == Len(elem)
        h == w \div 2
        negative == elem[w] >= 128
        low_negative == elem[h] >= 128
        fits == /\ negative = low_negative
                /\ \A k \in (h + 1) .. w : elem[k] = (IF negative THEN 255 ELSE 0)
    IN  IF fits THEN SubSeq(elem, 1, h)
        ELSE IF negative THEN [k \in 1 .. h |-> IF k = h THEN 128 ELSE 0]
        ELSE [k \in 1 .. h |-> IF k = h THEN 127 ELSE 255]

\* _mm256_packs_epi32/epi16, _mm512_packs_epi32/epi16 on elements of width w: in every
\* 128-bit lane the saturated elements of a's lane, then those of b's lane
packs(a, b, w) ==
    [j \in 1 .. Len(a) |->
        LET lane == (j - 1) \div 16
            o == (j - 1) % 16
            h == w \div 2
            per == 16 \div w
            e == o \div h
            from == IF e < per THEN a ELSE b
        IN  Saturate(Elem(from, lane * per + (e % per) + 1, w))[(o % h) + 1]]

\* the 64-bit element selectors of _mm256_permute4x64_epi64's immediate
Imm8Quads(imm) ==
    <<imm % 4, (imm \div 4) % 4, (imm \div 16) % 4, (imm \div 64) % 4>>

\* _mm256_permute4x64_epi64 / _mm512_permutexvar_epi64: 64-bit element k of the
\* result is element idx[k] of the source
PermuteQuads(reg, idx) ==
    [j \in 1 .. Len(reg) |-> reg[idx[((j - 1) \div 8) + 1] * 8 + ((j - 1) % 8) + 1]]

PERMUTE_D8 == 216
PERMUTE_512 == <<0, 2, 4, 6, 1, 3, 5, 7>>

\* the lane fix-up of a kernel on registers of vbytes bytes
FixOrder(reg, vbytes) ==
    IF vbytes = 32 THEN PermuteQuads(reg, Imm8Quads(PERMUTE_D8))
    ELSE PermuteQuads(reg, PERMUTE_512)

RECURSIVE GatherLoop(_, _, _, _, _, _, _)
\* the vector loop of extract_signal_{4,8}byte_avx2/avx512: one gather of whole
\* elements per step, stored as gathered
GatherLoop(data_file, src, i, simd_samples, element_size, row_size, vbytes) ==
    IF i >= simd_samples THEN <<>>
    ELSE LET per == vbytes \div element_size
         IN  ScalarLoop(data_file, src, i, i + per, element_size, row_size)
                \o GatherLoop(data_file, src, i + per, simd_samples, element_size, row_size,
                              vbytes)

RECURSIVE Pack2Loop(_, _, _, _, _, _)
\* the vector loop of extract_signal_2byte_avx2/avx512
Pack2Loop(data_file, src, i, simd_samples, row_size, vbytes) ==
    IF i >= simd_samples THEN <<>>
    ELSE LET n == vbytes \div 4
             data_lo == AndMask(Gather32(data_file, src + i * row_size, row_size, n),
                                MASK_0000FFFF)
             data_hi == AndMask(Gather32(data_file, src + (i + n) * row_size, row_size, n),
                                MASK_0000FFFF)
             packed == FixOrder(packs(data_lo, data_hi, 4), vbytes)
         IN  packed \o Pack2Loop(data_file, src, i + 2 * n, simd_samples, row_size, vbytes)

RECURSIVE Pack1Loop(_, _, _, _, _, _)
\* the vector loop of extract_signal_1byte_avx2/avx512
Pack1Loop(data_file, src, i, simd_samples, row_size, vbytes) ==
    IF i >= simd_samples THEN <<>>
    ELSE LET n == vbytes \div 4
             data0 == AndMask(Gather32(data_file, src + i * row_size, row_size, n),
                              MASK_000000FF)
             data1 == AndMask(Gather32(data_file, src + (i + n) * row_size, row_size, n),
                              MASK_000000FF)
             data2 == AndMask(Gather32(data_file, src + (i + 2 * n) * row_size, row_size, n),
                              MASK_000000FF)
             data3 == AndMask(Gather32(data_file, src + (i + 3 * n) * row_size, row_size, n),
                              MASK_000000FF)
             packed01 == packs(data0, data1, 4)
             packed23 == packs(data2, data3, 4)
             packed == FixOrder(packs(packed01, packed23, 2), vbytes)
         IN  packed \o Pack1Loop(data_file, src, i + 4 * n, simd_samples, row_size, vbytes)

\* extract_signal_{1,2,4,8}byte_avx2 (vbytes = 32) and _avx512 (vbytes = 64)
extract_signal_gather(data_file, src, sample_count, element_size, row_size, vbytes) ==
    LET per == vbytes \div element_size
        simd_samples == (sample_count \div per) * per
    IN  IF element_size >= 4
        THEN WithTail(GatherLoop(data_file, src, 0, simd_samples, element_size, row_size,
                                 vbytes),
                      data_file, src, simd_samples, sample_count, element_size, row_size,
                      element_size)
        ELSE IF element_size = 2
        THEN WithTail(Pack2Loop(data_file, src, 0, simd_samples, row_size, vbytes),
                      data_file, src, simd_samples, sample_count, element_size, row_size, 4)
        ELSE WithTail(Pack1Loop(data_file, src, 0, simd_samples, row_size, vbytes),
                      data_file, src, simd_samples, sample_count, element_size, row_size, 4)

\* extract_signal_generic: the kernel the dispatch selects, applied to the samples
\* [start_sample, end_sample) of the column at signal_offset
extract_signal_generic(simd_level, built512, data_file, row_data, start_sample, end_sample, signal_offset, element_size, row_size) ==
    LET sample_count == end_sample - start_sample
        src == row_data + start_sample * row_size + signal_offset
        vectorised == element_size \in {1, 2, 4, 8}
    IN  IF built512 /\ simd_level >= ERG_SIMD_AVX512 /\ vectorised
        THEN extract_signal_gather(data_file, src, sample_count, element_size, row_size, 64)
        ELSE IF simd_level >= ERG_SIMD_AVX2 /\ vectorised
        THEN extract_signal_gather(data_file, src, sample_count, element_size, row_size, 32)
        ELSE IF simd_level >= ERG_SIMD_SSE2 /\ vectorised
        THEN extract_signal_sse2(data_file, src, sample_count, element_size, row_size)
        ELSE extract_signal_scalar(data_file, src, sample_count, element_size, row_size)

(***************************************************************************)
(* erg_get_signal and erg_free                                             *)
(***************************************************************************)
\* a lookup that falls back to the first signal when the name is not found
erg_find_signal_index_or_first(e, signal_name) ==
    IF e.signal_count = 0 THEN 0 - 1
    ELSE IF \E i \in 1 .. e.signal_count : e.signals[i].name = signal_name
    THEN (CHOOSE i \in 1 .. e.signal_count :
              /\ e.signals[i].name = signal_name
              /\ \A j \in 1 .. (i - 1) : e.signals[j].name # signal_name) - 1
    ELSE 0

\* erg_find_signal_index: the first signal of that name, -1 if there is none
erg_find_signal_index(e, signal_name) ==
    IF \E i \in 1 .. e.signal_count : e.signals[i].name = signal_name
    THEN (CHOOSE i \in 1 .. e.signal_count :
              /\ e.signals[i].name = signal_name
              /\ \A j \in 1 .. (i - 1) : e.signals[j].name # signal_name) - 1
    ELSE 0 - 1

IntegerTypes ==
    {"ERG_INT", "ERG_UINT", "ERG_SHORT", "ERG_USHORT", "ERG_LONGLONG", "ERG_ULONGLONG",
     "ERG_CHAR", "ERG_UCHAR"}

FloatTypes == {"ERG_FLOAT", "ERG_DOUBLE"}

\* (T)value for an integer type T that holds the truncated value: the fraction is
\* dropped, towards zero
CastToInt(d) == IF d >= 0 THEN d \div 2 ELSE 0 - ((0 - d) \div 2)

RECURSIVE ScaleElem(_, _, _, _)
\* data[i] * factor + offset in an integer type of Len(elem) bytes, for a factor and
\* an offset in -128 .. 127: byte by byte from the lowest, the carry starting at
\* offset; the bytes are those of the two's complement result modulo 2^(8 Len(elem))
ScaleElem(elem, k, factor, carry) ==
    IF k > Len(elem) THEN <<>>
    ELSE <<(elem[k] * factor + carry) % 256>>
            \o ScaleElem(elem, k + 1, factor, (elem[k] * factor + carry) \div 256)

\* a signed element widened to n bytes
SignExtend(elem, n) ==
    [k \in 1 .. n |-> IF k <= Len(elem) THEN elem[k]
                      ELSE IF elem[Len(elem)] >= 128 THEN 255 ELSE 0]

\* the widened value is one a signed type of E bytes holds
Fits(wide, E) ==
    \A k \in (E + 1) .. Len(wide) : wide[k] = (IF wide[E] >= 128 THEN 255 ELSE 0)

\* idata[i] * factor_i + offset_i leaves int32_t, or lldata[i] * factor_ll + offset_ll
\* leaves int64_t, for some sample: the product or the sum overflows. The narrower
\* types are computed in int after promotion and do not overflow for these factors.
ScalingOverflows(sig, bytes, sample_count) ==
    /\ sig.factor # Dbl(1) \/ sig.offset # Dbl(0)
    /\ sig.type \in {"ERG_INT", "ERG_LONGLONG"}
    /\ \E i \in 1 .. sample_count :
          LET wide == SignExtend(Elem(bytes, i, sig.type_size), sig.type_size + 2) IN
          \/ ~Fits(ScaleElem(wide, 1, CastToInt(sig.factor), 0), sig.type_size)
          \/ ~Fits(ScaleElem(wide, 1, CastToInt(sig.factor), CastToInt(sig.offset)), sig.type_size)

\* a scaling switch that tests the factor alone
ApplyScalingFactorOnly(sig, bytes, sample_count) ==
    IF sig.factor # Dbl(1) /\ sig.type \in IntegerTypes
    THEN [j \in 1 .. Len(bytes) |->
            ScaleElem(Elem(bytes, ((j - 1) \div sig.type_size) + 1, sig.type_size),
                      1, CastToInt(sig.factor),
                      CastToInt(sig.offset))[((j - 1) % sig.type_size) + 1]]
    ELSE bytes

\* the scaling switch of erg_get_signal on the extracted bytes. An integer type
\* scales with the factor and the offset cast to it. A float or double element
\* becomes the multiply-add of its bytes, kept as the term it is. ERG_BYTES and
\* the default case do nothing.
ApplyScaling(sig, bytes, sample_count) ==
    IF sig.factor = Dbl(1) /\ sig.offset = Dbl(0) THEN bytes
    ELSE IF sig.type \in IntegerTypes
    THEN [j \in 1 .. Len(bytes) |->
            ScaleElem(Elem(bytes, ((j - 1) \div sig.type_size) + 1, sig.type_size),
                      1, CastToInt(sig.factor),
                      CastToInt(sig.offset))[((j - 1) % sig.type_size) + 1]]
    ELSE IF sig.type \in FloatTypes
    THEN [i \in 1 .. sample_count |->
            <<"fmadd", Elem(bytes, i, sig.type_size), sig.factor, sig.offset>>]
    ELSE bytes

\* the last call of erg_get_signal: its argument, its outcome, the buffer it returned
\* and, for the record, the bytes the extractor had stored before the scaling switch
\* and the offset in the file of the last byte the extractor loaded
Returned(name, ret, data) ==
    [name |-> name, ret |-> ret, data |-> data, raw |-> <<>>, last |-> 0 - 1]

erg_get_signal(signal_name) ==
    /\ erg.st \in {"init", "parsed", "freed"}
    /\ LET index == erg_find_signal_index(erg, signal_name) IN
       IF index < 0 \/ erg.sample_count = 0
       THEN /\ got' = Returned(signal_name, "NULL", <<>>)
            /\ erg' = erg
       ELSE LET sig == erg.signals[index + 1]
                offset == SumSizes(erg.signals, index)
                done == extract_signal_generic(erg.simd_level, avx512_built, erg_file,
                                               erg.data_offset, 0, erg.sample_count,
                                               offset, sig.type_size, erg.row_size)
            IN  \* malloc(0) may return NULL or a pointer
                \/ /\ erg.sample_count * sig.type_size = 0
                   /\ erg' = Fatal(erg, "Failed to allocate signal array")
                   /\ got' = Returned(signal_name, "exit", <<>>)
                \/ /\ erg.mapped_data = "NULL"
                   /\ erg' = Fatal(erg, "ERG file not memory-mapped")
                   /\ got' = Returned(signal_name, "exit", <<>>)
                \* a load past the file's last byte faults when the file ends where
                \* its last mapped page ends
                \/ /\ erg.mapped_data # "NULL"
                   /\ done.last >= erg.mapped_size
                   /\ erg' = [erg EXCEPT !.st = "crashed"]
                   /\ got' = [Returned(signal_name, "fault", <<>>) EXCEPT !.last = done.last]
                \* signed overflow in the scaling loop is undefined: the build wraps,
                \* which is the buffer below, or stops the process when it traps
                \/ /\ erg.mapped_data # "NULL"
                   /\ ScalingOverflows(sig, done.bytes, erg.sample_count)
                   /\ erg' = [erg EXCEPT !.st = "crashed"]
                   /\ got' = Returned(signal_name, "trap", <<>>)
                \/ /\ erg.mapped_data # "NULL"
                   /\ erg' = erg
                   /\ got' = [Returned(signal_name, "buffer",
                                       ApplyScaling(sig, done.bytes, erg.sample_count))
                               EXCEPT !.raw = done.bytes, !.last = done.last]
    /\ UNCHANGED <<erg_info, erg_file, avx512_built>>
    /\ UNCHANGED notErg

erg_free ==
    /\ erg.st \in {"init", "parsed"}
    /\ erg' = [erg EXCEPT !.st = "freed", !.mapped_data = "NULL", !.mapped_size = 0,
                          !.signals = <<>>, !.signal_count = 0, !.sample_count = 0]
    /\ UNCHANGED <<erg_info, erg_file, avx512_built, got>>
    /\ UNCHANGED notErg

ErgNext ==
    \/ \E level \in SimdLevels : erg_init(level)
    \/ \E level \in SimdLevels : erg_set_simd_level(level)
    \/ erg_parse
    \/ \E signal_name \in Names : erg_get_signal(signal_name)
    \/ erg_free

\* an archive not yet initialised, on any info file and data file of the model
ErgInit ==
    /\ PoolStart /\ ArenaStart /\ InfoStart /\ SplitStart
    /\ mapped = [i \in Samples |-> 0]
    /\ ErgIdle
    /\ erg_info \in Infos
    /\ \E size \in FileSizes(erg_info), seed \in Seeds : erg_file = ErgFile(size, seed)
    /\ avx512_built \in BOOLEAN

ErgSpec == ErgInit /\ [][ErgNext]_vars

(***************************************************************************)
(* Claims about the archive.  The Column* operators state the row layout   *)
(* of the data file: they are what an extraction is compared with.         *)
(***************************************************************************)
\* the first signal of the archive with that name (0: none)
ColumnOf(name) ==
    IF \E i \in 1 .. Len(erg.signals) : erg.signals[i].name = name
    THEN CHOOSE i \in 1 .. Len(erg.signals) :
            /\ erg.signals[i].name = name
            /\ \A j \in 1 .. (i - 1) : erg.signals[j].name # name
    ELSE 0

RECURSIVE ColumnOffset(_)
\* the sum of the type sizes of the signals declared before signal s
ColumnOffset(s) == IF s = 1 THEN 0 ELSE ColumnOffset(s - 1) + erg.signals[s - 1].type_size

\* byte k (from 1) of element i (from 0) of column s in the data file
FileByte(s, i, k) == erg_file[ERG_HEADER_SIZE + i * erg.row_size + ColumnOffset(s) + k]

\* the last erg_get_signal call returned a buffer for a signal of the parsed archive
GotColumn == erg.st = "parsed" /\ got.ret = "buffer" /\ ColumnOf(got.name) > 0

\* C15: whatever kernel the dispatch selects, a signal with identity scaling is
\* extracted whole: the E = type_size bytes of element i of the buffer are the E
\* bytes of the data file at header_size + i * row_size + column_offset
C15_ExtractionContract ==
    GotColumn =>
        LET s == ColumnOf(got.name)
            E == erg.signals[s].type_size
        IN  (erg.signals[s].factor = Dbl(1) /\ erg.signals[s].offset = Dbl(0)) =>
                /\ Len(got.data) = erg.sample_count * E
                /\ \A i \in 0 .. (erg.sample_count - 1) : \A k \in 1 .. E :
                        got.data[i * E + k] = FileByte(s, i, k)

\* C16: at every SIMD level the extractor of an element size 1, 2, 4 or 8 stores the
\* bytes the scalar extractor stores for the same rows, stride, column offset and
\* sample range, whatever the byte values and the sample count
C16_SimdEquivalence ==
    GotColumn =>
        LET s == ColumnOf(got.name)
            sig == erg.signals[s]
            scalar == extract_signal_scalar(erg_file, ERG_HEADER_SIZE + ColumnOffset(s),
                                            erg.sample_count, sig.type_size, erg.row_size)
        IN  sig.type_size \in {1, 2, 4, 8} =>
                got.data = ApplyScaling(sig, scalar.bytes, erg.sample_count)

\* the info file binds little-endian byte order and at least one signal, each with a type
UsableInfo ==
    /\ erg_info.byte_order = S_LittleEndian
    /\ Len(erg_info.sigs) > 0
    /\ \A i \in 1 .. Len(erg_info.sigs) : erg_info.sigs[i].type_str # NoValue

\* erg_parse ended the process for a reason other than a failed mmap
ParseRefused ==
    /\ erg.st = "exited"
    /\ erg.diag \in {"File.ByteOrder not found", "Only little-endian", "No signals found",
                     "Data type not found", "ERG file too small", "Invalid row size"}

\* C17: after a successful parse row_size is the sum of the signals' type sizes and
\* sample_count is the floor of data_size / row_size; a trailing partial row is
\* ignored with a warning and is no reason to refuse the file
C17_RowInvariant ==
    /\ erg.st = "parsed" =>
        /\ erg.row_size = ColumnOffset(Len(erg.signals) + 1)
        /\ erg.data_size = Len(erg_file) - ERG_HEADER_SIZE
        /\ erg.data_size - (erg.data_size % erg.row_size) = erg.sample_count * erg.row_size
        /\ erg.warned = (erg.data_size % erg.row_size # 0)
    /\ ParseRefused =>
        \/ ~UsableInfo
        \/ Len(erg_file) <= ERG_HEADER_SIZE
        \/ \A i \in 1 .. Len(erg_info.sigs) : parse_data_type(erg_info.sigs[i].type_str)[2] = 0

\* a parsed archive of two signals whose data file ends in a partial row after at
\* least 17 complete rows
C17_Witness ==
    /\ erg.st = "parsed"
    /\ Len(erg.signals) = 2
    /\ erg.data_size % erg.row_size # 0
    /\ erg.sample_count >= 17
    /\ erg.warned

\* C18: an archive whose data file is exactly the 16-byte header parses without
\* error and has no samples
C18_HeaderOnlyFile ==
    (UsableInfo /\ RowBytes(erg_info) > 0 /\ Len(erg_file) = ERG_HEADER_SIZE) =>
        /\ ~ParseRefused
        /\ erg.st = "parsed" => erg.sample_count = 0

\* C19: a query that cannot be answered is not fatal: erg_get_signal returns NULL
\* for a name that is not in the schema, and for every name when sample_count is 0,
\* and in both cases the process keeps running and the archive is left as it was
C19_QueryFailures ==
    [][(got' # got /\ (ColumnOf(got'.name) = 0 \/ erg.sample_count = 0)) =>
            /\ got'.ret = "NULL"
            /\ erg' = erg
            /\ erg'.st \notin {"exited", "crashed"}
            /\ <<erg_info, erg_file>>' = <<erg_info, erg_file>>]_vars

\* a signal of the schema was asked of a parsed archive without samples, and NULL returned
C19_Witness ==
    /\ erg.st = "parsed"
    /\ erg.sample_count = 0
    /\ ColumnOf(got.name) > 0
    /\ got.ret = "NULL"

\* the type strings of the format's type map
TypeMap ==
    {S_Float, S_Double, S_LongLong, S_ULongLong, S_Int, S_UInt, S_Short, S_UShort, S_Char,
     S_UChar} \cup {<<Digits[n + 1], " ">> \o S_Bytes : n \in 1 .. 8}

\* C20: a signal whose type string is not in the type map gets type Unknown and
\* size 0, and a schema that holds such a signal never gets past the row-size
\* check of the parse, whatever its other signals are
C20_UnknownTypeRefused ==
    \A i \in 1 .. Len(erg_info.sigs) :
        (UsableInfo /\ erg_info.sigs[i].type_str \notin TypeMap) =>
            /\ parse_data_type(erg_info.sigs[i].type_str) = <<"ERG_UNKNOWN", 0>>
            /\ ((erg.st = "parsed" \/ ParseRefused) /\ Len(erg_file) > ERG_HEADER_SIZE) =>
                    (erg.st = "exited" /\ erg.diag = "Invalid row size")

thread_pool_submit(n_items) ==
    /\ ~crashed
    /\ UNCHANGED notPool
    /\ mpc = "idle"
    /\ Cycle < MaxCycles
    /\ subs' = Append(subs, [items |-> n_items, result |-> [i \in Samples |-> 0],
                             freed |-> FALSE])
    /\ work_func' = "extract_worker_pool"
    /\ work_args' = Cycle + 1
    /\ num_work_items' = n_items
    /\ active_threads' = Min(n_items, NumThreads)
    /\ execs' = Append(execs, NoCounts)
    /\ dones' = Append(dones, NoCounts)
    /\ inflight' = TRUE
    /\ mpc' = "submitted"
    /\ UNCHANGED <<shutdown, workerVars, returned, mapped, crashed>>

SubmitNext ==
    \/ \E w \in Workers : worker_thread_entry(w)
    \/ \E w \in Workers : worker_thread_grab(w)
    \/ \E w \in Workers : worker_thread_call(w)
    \/ \E w \in Workers : extract_worker_pool_step(w)
    \/ \E w \in Workers : extract_worker_pool_return(w)
    \/ \E w \in Workers : worker_thread_signal(w)
    \/ \E n_items \in 1 .. MaxItems : thread_pool_submit(n_items)
    \/ thread_pool_wait_call
    \/ thread_pool_wait_return
    \/ thread_pool_destroy
    \/ thread_pool_destroy_join

SubmitInit == PoolInit /\ mapped = [i \in Samples |-> 1]

SubmitSpec == SubmitInit /\ [][SubmitNext]_vars

\* worker w passes the completion block of worker_thread: it decrements
\* active_threads and, at zero, clears work_func
Decrements(w) == wpc[w] = "signal" /\ wpc'[w] = "top"

\* C22: a submission of n_items < n work items wakes only the workers 0 .. n_items - 1:
\* while it is in flight no worker of index >= n_items leaves its wait for work,
\* decrements active_threads or clears work_func
C22_PrefixWake ==
    [][\A w \in Workers :
          (mpc \in {"submitted", "waiting"} /\ num_work_items < NumThreads /\ w >= num_work_items)
              => /\ ~(wpc[w] = "top" /\ wpc'[w] = "exec")
                 /\ ~Decrements(w)]_vars

(***************************************************************************)
(* Claims about the chunk search and the growth of arena_alloc             *)
(***************************************************************************)
\* a step in which arena_alloc, called directly or by arena_strdup or arena_strndup,
\* returned
AllocReturned ==
    /\ nops' = nops + 1
    /\ lastOp'.op \in {"alloc", "strdup", "strndup"}
    /\ astate' = "ok"
\* the size arena_alloc was called with in that step
Requested == IF lastOp'.op = "alloc" THEN lastOp'.arg ELSE lastOp'.arg + 1
\* the step appended a fresh chunk
Appended == Len(arena'.chunks) = Len(arena.chunks) + 1
FreeBytes(ch) == ch.capacity - ch.used

C24_FreshIsMaxOfBoth ==
    [][(AllocReturned /\ Appended) =>
          arena'.chunks[Len(arena'.chunks)].capacity = Max(arena.chunk_size, 2 * Requested)]_vars

\* C24 amended: the fresh chunk arena_alloc(n) appends has capacity chunk_size when
\* n <= chunk_size, also for chunk_size / 2 < n, and 2n, taken in size_t, only
\* when n > chunk_size
C24_FreshCapacity ==
    [][(AllocReturned /\ Appended) =>
          arena'.chunks[Len(arena'.chunks)].capacity =
              IF Requested > arena.chunk_size THEN MulSz(Requested, 2) ELSE arena.chunk_size]_vars

\* arena_alloc(3) with chunk_size 4 appended a chunk of capacity 4, not 6
C24_Witness ==
    /\ astate = "ok"
    /\ nops = 3
    /\ lastOp.op = "alloc" /\ lastOp.arg = 3 /\ lastOp.prev = "alloc"
    /\ lastOp.ret = <<2, 0>>
    /\ Len(arena.chunks) = 2
    /\ arena.chunks[1].capacity = 4 /\ arena.chunks[1].used = 3
    /\ arena.chunks[2].capacity = 4 /\ arena.chunks[2].used = 3

(***************************************************************************)
(* Claims about continuation lines of the info file                        *)
(***************************************************************************)
\* the first byte is a tab, or a space that at least one more byte follows
IsContinuationLine(raw) == Len(raw) > 0 /\ (raw[1] = HT \/ (raw[1] = SP /\ Len(raw) > 1))
\* the loop body consumed a continuation line in this step
ContinuationStep ==
    /\ ipc = "parsing"
    /\ Len(file') = Len(file) + 1
    /\ IsContinuationLine(file'[Len(file')])

\* C25: a continuation line (first byte a tab, or a space followed by another byte)
\* met while no multi-line value is open creates no entry and leaves the entry
\* table and the parser state as they were, even when it holds '=' or ':'; met
\* while a value is open it neither commits nor ends the pending entry
C25_ContinuationLines ==
    [][ContinuationStep =>
          /\ ~is_multiline =>
                /\ entries' = entries
                /\ current_key' = current_key
                /\ value_buffer' = value_buffer
                /\ is_multiline' = FALSE
          /\ is_multiline =>
                /\ entries' = entries
                /\ current_key' = current_key
                /\ is_multiline' = TRUE]_vars

\* " a=b" was read with no value open and left no entry; then "a:" opened a value
\* and "\ta:" was appended to it
C25_Witness ==
    /\ ipc = "parsing"
    /\ file = << <<SP, "a", EQ, "b">>, <<"a", COLON>>, <<HT, "a", COLON>> >>
    /\ entries = << >>
    /\ is_multiline
    /\ current_key = <<"a">>
    /\ value_buffer = <<"a", COLON>>

(***************************************************************************)
(* Claims about erg_get_signal on an archive that is not mapped            *)
(***************************************************************************)
\* C26: erg_get_signal on an archive that erg_init has set up and erg_parse has
\* not run on (mapped_data is NULL) is fatal: the process ends with the
\* diagnostic, and neither NULL nor a buffer is returned
C26_UnparsedIsFatal ==
    [][(got' # got /\ erg.st = "init" /\ erg.mapped_data = "NULL") =>
          /\ got'.ret = "exit"
          /\ erg'.st = "exited"
          /\ erg'.diag = "ERG file not memory-mapped"]_vars

(***************************************************************************)
(* erg_get_signal: the work records of a pooled extraction, for any number *)
(* of samples and of work items, and the stores of the work items          *)
(***************************************************************************)
\* the largest erg->sample_count and the largest erg->num_threads of a split
MaxSplitSamples == 12
MaxSplitThreads == 6

\* one iteration of `for (int i = 0; i < num_threads; i++)`: work[i] is filled
fill_work_item ==
    /\ Len(work) < split.num_threads
    /\ LET i == Len(work) IN
       work' = Append(work,
                      [start_sample |-> work_start_sample(i, split.sample_count, split.num_threads),
                       end_sample |-> work_end_sample(i, split.sample_count, split.num_threads)])
    /\ UNCHANGED <<split, ran, written, notSplit>>

\* extract_worker_pool on work item i (counted from 1): extract_signal_generic stores
\* result[s] for every s of [start_sample, end_sample)
extract_worker_pool(i) ==
    /\ Len(work) = split.num_threads
    /\ i \in (1 .. Len(work)) \ ran
    /\ written' = [s \in 1 .. split.sample_count |->
                      IF work[i].start_sample <= s - 1 /\ s - 1 < work[i].end_sample
                      THEN written[s] + 1 ELSE written[s]]
    /\ ran' = ran \cup {i}
    /\ UNCHANGED <<split, work, notSplit>>

SplitNext ==
    \/ fill_work_item
    \/ \E i \in 1 .. MaxSplitThreads : extract_worker_pool(i)

SplitInit ==
    /\ PoolStart /\ ArenaStart /\ InfoStart /\ ErgStart
    /\ mapped = [i \in Samples |-> 0]
    /\ split \in [sample_count : 1 .. MaxSplitSamples, num_threads : 1 .. MaxSplitThreads]
    /\ work = << >>
    /\ ran = {}
    /\ written = [s \in 1 .. split.sample_count |-> 0]

SplitSpec == SplitInit /\ [][SplitNext]_vars

\* C27: for every sample_count >= 1 and every number T >= 1 of work items the ranges
\* [start_sample, end_sample) of the work records are contiguous, disjoint and
\* cover [0, sample_count): the first starts at 0, each ends where the next
\* starts, the last ends at sample_count; so no element of the result is stored
\* by two work items, and none is left out once all of them have run
C27_RangesPartition ==
    /\ (split # NoSplit /\ Len(work) = split.num_threads) =>
          /\ work[1].start_sample = 0
          /\ \A i \in 1 .. (Len(work) - 1) : work[i].end_sample = work[i + 1].start_sample
          /\ work[Len(work)].end_sample = split.sample_count
          /\ \A i \in 1 .. Len(work) : work[i].start_sample <= work[i].end_sample
    /\ \A s \in 1 .. Len(written) : written[s] <= 1
    /\ (split # NoSplit /\ ran = 1 .. split.num_threads) =>
          \A s \in 1 .. Len(written) : written[s] = 1

\* 7 samples over 3 work items, remainder 1: the ranges are [0, 3), [3, 5), [5, 7)
\* and all three have run
C27_Witness ==
    /\ split = [sample_count |-> 7, num_threads |-> 3]
    /\ work = << [start_sample |-> 0, end_sample |-> 3], [start_sample |-> 3, end_sample |-> 5],
                 [start_sample |-> 5, end_sample |-> 7] >>
    /\ ran = {1, 2, 3}
    /\ written = [s \in 1 .. 7 |-> 1]

(***************************************************************************)
(* Claims about the counter of the pool                                    *)
(***************************************************************************)
\* C28: at every point 0 <= active_threads <= min(n_items, n) for the submission
\* installed; the counter is decremented once per executed work item, so never by
\* a worker that ran none, and never by a worker that took its work from an
\* earlier submission
C28_CounterInRange ==
    /\ [](0 <= active_threads /\ active_threads <= Min(num_work_items, NumThreads))
    /\ [][\A w \in Workers :
             Decrements(w) => (warg[w] # NullArg /\ warg[w][1] = work_args)]_vars

(***************************************************************************)
(* Claims about the loads of the extraction kernels                        *)
(***************************************************************************)
\* C29: an extraction loads only bytes of the data region, which ends with the
\* last complete row at ERG_HEADER_SIZE + sample_count * row_size: whatever the
\* element size, the column and the SIMD level, the last byte loaded lies before
\* that end, also when the signal is the last column of the last row
C29_LoadsInsideData ==
    (erg.st \in {"parsed", "crashed"} /\ got.ret \in {"buffer", "fault"}) =>
        got.last < ERG_HEADER_SIZE + erg.sample_count * erg.row_size

(***************************************************************************)
(* Claims about the loop of arena_reserve                                  *)
(***************************************************************************)
\* a call of arena_reserve ended in this step, by returning or by the exit of a
\* failed chunk_create
ReserveEnded == nops' = nops + 1 /\ lastOp'.op = "reserve"

\* C30: arena_reserve(total) terminates on every arena reachable from arena_init,
\* one made with initial_size 0 included: every pass of its loop makes progress,
\* that is, every chunk it appends has capacity > 0 and brings the summed capacity
\* nearer to total
C30_ReserveTerminates ==
    [][ReserveEnded =>
          \A j \in (Len(arena.chunks) + 1) .. Len(arena'.chunks) :
              /\ arena'.chunks[j].capacity > 0
              /\ SumOver(SubSeq(arena'.chunks, 1, j), "capacity", 1)
                    > SumOver(SubSeq(arena'.chunks, 1, j - 1), "capacity", 1)]_vars

====
